---- MODULE Spec2Model ----
(***************************************************************************)
(* devday: per-day reconstruction of AI coding sessions from four local    *)
(* stores (Codex, Claude Code, Cursor, OpenCode), the shared token / cost  *)
(* / duration algorithms, and the merge of sessions and git activity into  *)
(* a DayRecap.                                                             *)
(*                                                                         *)
(* Conventions of the model:                                               *)
(*  - instants are integers in milliseconds; a calendar date is a day      *)
(*    index d whose local window is [d * MS_PER_DAY, d * MS_PER_DAY +      *)
(*    MS_PER_DAY - 1] (no DST shift);                                      *)
(*  - a JS value that may be null / undefined is <<>> (absent) or <<v>>;   *)
(*  - money is an integer number of cost units (1e-10 USD), prices are     *)
(*    integers in 1e-4 USD per million tokens, so estimateCost is exact.   *)
(***************************************************************************)
EXTENDS Integers, Sequences, FiniteSets, TLC

VARIABLES
    date,           \* the day index handed to getSessions / buildDayRecap
    storage,        \* on-disk contents of the four tools' stores
    returned,       \* per parser: Pending, or the Session[] getSessions returned
    allSessions,    \* Session[] handed to buildDayRecap
    gitActivities,  \* GitActivity[] handed to buildDayRecap
    recap,          \* the DayRecap built, or NoRecap
    call,           \* arguments of the pending call of a pure function
    ret             \* its return value, or NoRet

vars == <<date, storage, returned, allSessions, gitActivities, recap, call, ret>>

----------------------------------------------------------------------------
(* Generic helpers *)

None == <<>>
Some(v) == <<v>>
IsSome(o) == o /= <<>>
Val(o) == o[1]
\* JS `o ?? d`
OrElse(o, d) == IF IsSome(o) THEN Val(o) ELSE d
\* JS truthiness of an optional number: absent and 0 are falsy
Truthy(o) == IsSome(o) /\ Val(o) /= 0

Max(a, b) == IF a >= b THEN a ELSE b
Min(a, b) == IF a <= b THEN a ELSE b

RECURSIVE SumSeq(_)
SumSeq(s) == IF s = <<>> THEN 0 ELSE Head(s) + SumSeq(Tail(s))

RECURSIVE MapSeq(_, _)
MapSeq(F(_), s) == IF s = <<>> THEN <<>> ELSE <<F(Head(s))>> \o MapSeq(F, Tail(s))

RECURSIVE FlatSeq(_)
FlatSeq(ss) == IF ss = <<>> THEN <<>> ELSE Head(ss) \o FlatSeq(Tail(ss))

Range(s) == {s[i] : i \in 1..Len(s)}

\* [...new Set(s)]: first occurrences, in order
RECURSIVE UniqueInOrder(_)
UniqueInOrder(s) ==
    IF s = <<>> THEN <<>>
    ELSE LET init == UniqueInOrder(SubSeq(s, 1, Len(s) - 1))
             last == s[Len(s)]
         IN IF last \in Range(init) THEN init ELSE Append(init, last)

\* all sequences over S of length 0..n
SeqsUpTo(S, n) == UNION {[1..k -> S] : k \in 0..n}

\* Array.prototype.sort with a numeric comparator key(a) - key(b): stable,
\* ascending by Key.  Insertion after every element whose key is <= .
RECURSIVE SortAscBy(_, _)
SortAscBy(Key(_), s) ==
    IF s = <<>> THEN <<>>
    ELSE LET init == SortAscBy(Key, SubSeq(s, 1, Len(s) - 1))
             x    == s[Len(s)]
             keep == SelectSeq(init, LAMBDA y : Key(y) <= Key(x))
             rest == SelectSeq(init, LAMBDA y : Key(y) > Key(x))
         IN keep \o <<x>> \o rest

----------------------------------------------------------------------------
(* Day window *)

MS_PER_DAY == 86400000
dayStartMs(d) == d * MS_PER_DAY
dayEndMs(d) == d * MS_PER_DAY + (MS_PER_DAY - 1)
InDay(ts, d) == ts >= dayStartMs(d) /\ ts <= dayEndMs(d)

----------------------------------------------------------------------------
(* Token usage and cost *)

emptyTokenUsage ==
    [input |-> 0, output |-> 0, reasoning |-> 0, cacheRead |-> 0, cacheWrite |-> 0, total |-> 0]

sumTokensStep(acc, t) ==
    [input      |-> acc.input + t.input,
     output     |-> acc.output + t.output,
     reasoning  |-> acc.reasoning + t.reasoning,
     cacheRead  |-> acc.cacheRead + t.cacheRead,
     cacheWrite |-> acc.cacheWrite + t.cacheWrite,
     total      |-> acc.total + t.total]

RECURSIVE ReduceTokens(_, _)
ReduceTokens(acc, usages) ==
    IF usages = <<>> THEN acc
    ELSE ReduceTokens(sumTokensStep(acc, Head(usages)), Tail(usages))

sumTokens(usages) == ReduceTokens(emptyTokenUsage, usages)

\* A model identifier is the sequence of its '-'-separated segments, so that
\* String.prototype.includes becomes "is a contiguous sub-sequence of".
includes(a, b) ==
    \E i \in 0..(Len(a) - Len(b)) : SubSeq(a, i + 1, i + Len(b)) = b

LowerSegment(x) ==
    CASE x = "GPT" -> "gpt"
      [] x = "4O" -> "4o"
      [] x = "Claude" -> "claude"
      [] OTHER -> x

toLowerCase(name) == [i \in DOMAIN name |-> LowerSegment(name[i])]

\* MODEL_PRICING in insertion order; prices in 1e-4 USD per million tokens
MODEL_PRICING == <<
    [key |-> <<"claude", "sonnet", "4", "20250514">>,
     inputPerMillion |-> 30000, outputPerMillion |-> 150000,
     cacheReadPerMillion |-> Some(3000), cacheWritePerMillion |-> Some(37500)],
    [key |-> <<"claude", "3", "5", "sonnet", "20241022">>,
     inputPerMillion |-> 30000, outputPerMillion |-> 150000,
     cacheReadPerMillion |-> Some(3000), cacheWritePerMillion |-> Some(37500)],
    [key |-> <<"claude", "3", "5", "haiku", "20241022">>,
     inputPerMillion |-> 8000, outputPerMillion |-> 40000,
     cacheReadPerMillion |-> Some(800), cacheWritePerMillion |-> Some(10000)],
    [key |-> <<"claude", "opus", "4", "20250514">>,
     inputPerMillion |-> 150000, outputPerMillion |-> 750000,
     cacheReadPerMillion |-> Some(15000), cacheWritePerMillion |-> Some(187500)],
    [key |-> <<"claude", "3", "opus", "20240229">>,
     inputPerMillion |-> 150000, outputPerMillion |-> 750000,
     cacheReadPerMillion |-> None, cacheWritePerMillion |-> None],
    [key |-> <<"gpt", "4o">>,
     inputPerMillion |-> 25000, outputPerMillion |-> 100000,
     cacheReadPerMillion |-> None, cacheWritePerMillion |-> None],
    [key |-> <<"gpt", "4o", "mini">>,
     inputPerMillion |-> 1500, outputPerMillion |-> 6000,
     cacheReadPerMillion |-> None, cacheWritePerMillion |-> None],
    [key |-> <<"o1">>,
     inputPerMillion |-> 150000, outputPerMillion |-> 600000,
     cacheReadPerMillion |-> None, cacheWritePerMillion |-> None],
    [key |-> <<"o1", "mini">>,
     inputPerMillion |-> 30000, outputPerMillion |-> 120000,
     cacheReadPerMillion |-> None, cacheWritePerMillion |-> None],
    [key |-> <<"o3", "mini">>,
     inputPerMillion |-> 11000, outputPerMillion |-> 44000,
     cacheReadPerMillion |-> None, cacheWritePerMillion |-> None],
    [key |-> <<"gpt", "4", "turbo">>,
     inputPerMillion |-> 100000, outputPerMillion |-> 300000,
     cacheReadPerMillion |-> None, cacheWritePerMillion |-> None],
    [key |-> <<"gemini", "2.0", "flash">>,
     inputPerMillion |-> 1000, outputPerMillion |-> 4000,
     cacheReadPerMillion |-> None, cacheWritePerMillion |-> None],
    [key |-> <<"gemini", "2.0", "pro">>,
     inputPerMillion |-> 12500, outputPerMillion |-> 100000,
     cacheReadPerMillion |-> None, cacheWritePerMillion |-> None],
    [key |-> <<"gemini", "1.5", "pro">>,
     inputPerMillion |-> 12500, outputPerMillion |-> 50000,
     cacheReadPerMillion |-> None, cacheWritePerMillion |-> None],
    [key |-> <<"deepseek", "chat">>,
     inputPerMillion |-> 2700, outputPerMillion |-> 11000,
     cacheReadPerMillion |-> None, cacheWritePerMillion |-> None],
    [key |-> <<"deepseek", "reasoner">>,
     inputPerMillion |-> 5500, outputPerMillion |-> 21900,
     cacheReadPerMillion |-> None, cacheWritePerMillion |-> None] >>

\* the heuristic mid-tier fallback { inputPerMillion: 3, outputPerMillion: 15 }
FallbackPricing ==
    [key |-> <<>>, inputPerMillion |-> 30000, outputPerMillion |-> 150000,
     cacheReadPerMillion |-> None, cacheWritePerMillion |-> None]

findPricing(model) ==
    LET normalized == toLowerCase(model)
        exact == {i \in DOMAIN MODEL_PRICING : MODEL_PRICING[i].key = normalized}
        fuzzy == {i \in DOMAIN MODEL_PRICING :
                    \/ includes(normalized, MODEL_PRICING[i].key)
                    \/ includes(MODEL_PRICING[i].key, normalized)}
        first(S) == CHOOSE i \in S : \A j \in S : i <= j
    IN IF exact /= {} THEN MODEL_PRICING[first(exact)]
       ELSE IF fuzzy /= {} THEN MODEL_PRICING[first(fuzzy)]
       ELSE FallbackPricing

\* the mutant of estimateCost used for C10: cache hits are netted out of the
\* input tokens before pricing
estimateCostNetInput(model, tokens) ==
    LET pricing == findPricing(model)
    IN (tokens.input - tokens.cacheRead) * pricing.inputPerMillion
       + tokens.output * pricing.outputPerMillion
       + tokens.cacheRead * OrElse(pricing.cacheReadPerMillion, pricing.inputPerMillion \div 10)
       + tokens.cacheWrite * OrElse(pricing.cacheWritePerMillion, (pricing.inputPerMillion * 5) \div 4)

\* cost in units of 1e-10 USD: (tokens / 1e6) * (price * 1e-4 USD)
estimateCost(model, tokens) ==
    LET pricing == findPricing(model)
        inputCost == tokens.input * pricing.inputPerMillion
        outputCost == tokens.output * pricing.outputPerMillion
        cacheReadCost ==
            tokens.cacheRead * OrElse(pricing.cacheReadPerMillion, pricing.inputPerMillion \div 10)
        cacheWriteCost ==
            tokens.cacheWrite * OrElse(pricing.cacheWritePerMillion, (pricing.inputPerMillion * 5) \div 4)
    IN inputCost + outputCost + cacheReadCost + cacheWriteCost


----------------------------------------------------------------------------
(* Merge / aggregation engine: buildDayRecap *)

\* JS null project path of a Session
NullPath == "null"

\* session.projectPath ?? '__unknown__'
projectKey(s) == IF s.projectPath = NullPath THEN "__unknown__" ELSE s.projectPath

\* keys of the Map sessionsByProject, in insertion order
sessionsByProjectKeys(sessions) ==
    UniqueInOrder([i \in DOMAIN sessions |-> projectKey(sessions[i])])

\* the mutant of projectSessionsOf used for C11: sessions are looked up by
\* their raw path, so those without a path reach no bucket
projectSessionsOfRawPath(sessions, projectPath) ==
    SelectSeq(sessions, LAMBDA s : s.projectPath = projectPath)

\* sessionsByProject.get(projectPath) ?? []
projectSessionsOf(sessions, projectPath) ==
    SelectSeq(sessions, LAMBDA s : projectKey(s) = projectPath)

\* keys of the Map gitByProject, in insertion order
gitByProjectKeys(gits) ==
    UniqueInOrder([i \in DOMAIN gits |-> gits[i].projectPath])

\* gitByProject.get(projectPath) ?? null: Map.set keeps the last record of a path
gitOf(gits, projectPath) ==
    LET idx == {i \in DOMAIN gits : gits[i].projectPath = projectPath}
    IN IF idx = {} THEN None
       ELSE Some(gits[CHOOSE i \in idx : \A j \in idx : j <= i])

\* new Set([...sessionsByProject.keys(), ...gitByProject.keys()])
allProjectPaths(sessions, gits) ==
    UniqueInOrder(sessionsByProjectKeys(sessions) \o gitByProjectKeys(gits))

\* the mutant of isDropped used for C7: the synthetic bucket of sessions
\* without a project path is dropped as well
isDroppedUnknownToo(projectSessions, git) ==
    \/ Len(projectSessions) = 0 /\ (git = None \/ Len(Val(git).commits) = 0)
    \/ Len(projectSessions) > 0 /\ projectSessions[1].projectPath = NullPath

\* the `continue` of the project loop
isDropped(projectSessions, git) ==
    Len(projectSessions) = 0 /\ (git = None \/ Len(Val(git).commits) = 0)

projectSummary(projectPath, sessions, gits) ==
    LET projectSessions == projectSessionsOf(sessions, projectPath)
    IN [projectPath     |-> projectPath,
        sessions        |-> projectSessions,
        git             |-> gitOf(gits, projectPath),
        totalSessions   |-> Len(projectSessions),
        totalMessages   |-> SumSeq([i \in DOMAIN projectSessions |-> projectSessions[i].messageCount]),
        totalTokens     |-> sumTokens([i \in DOMAIN projectSessions |-> projectSessions[i].tokens]).total,
        totalCostUsd    |-> SumSeq([i \in DOMAIN projectSessions |-> projectSessions[i].costUsd]),
        totalDurationMs |-> SumSeq([i \in DOMAIN projectSessions |-> projectSessions[i].durationMs]),
        toolsUsed       |-> UniqueInOrder([i \in DOMAIN projectSessions |-> projectSessions[i].tool]),
        modelsUsed      |-> UniqueInOrder(FlatSeq([i \in DOMAIN projectSessions |-> projectSessions[i].models])),
        aiSummary       |-> None]

\* the projects pushed by the loop over allProjectPaths, before sorting
unsortedProjects(sessions, gits) ==
    LET paths == allProjectPaths(sessions, gits)
        all   == [i \in DOMAIN paths |-> projectSummary(paths[i], sessions, gits)]
    IN SelectSeq(all, LAMBDA p : ~isDropped(p.sessions, p.git))

NegCost(p) == 0 - p.totalCostUsd

\* the mutant of sortProjects used for C8: ascending instead of descending
sortProjectsAscending(projects) == SortAscBy(LAMBDA p : p.totalCostUsd, projects)

\* projects.sort((a, b) => b.totalCostUsd - a.totalCostUsd)
sortProjects(projects) == SortAscBy(NegCost, projects)

buildDayRecap(d, sessions, gits) ==
    LET projects == sortProjects(unsortedProjects(sessions, gits))
    IN [date            |-> d,
        projects        |-> projects,
        totalSessions   |-> SumSeq([i \in DOMAIN projects |-> projects[i].totalSessions]),
        totalMessages   |-> SumSeq([i \in DOMAIN projects |-> projects[i].totalMessages]),
        totalTokens     |-> sumTokens([i \in DOMAIN sessions |-> sessions[i].tokens]).total,
        totalCostUsd    |-> SumSeq([i \in DOMAIN projects |-> projects[i].totalCostUsd]),
        totalDurationMs |-> SumSeq([i \in DOMAIN projects |-> projects[i].totalDurationMs]),
        toolsUsed       |-> UniqueInOrder(FlatSeq([i \in DOMAIN projects |-> projects[i].toolsUsed])),
        standupMessage  |-> None]


----------------------------------------------------------------------------
(* State machine: values of the variables a specification does not use *)

Parsers == {"codex", "claude-code", "cursor", "opencode"}

EmptyStorage == [codex |-> <<>>, claude |-> <<>>, cursor |-> <<>>, opencode |-> <<>>]

NothingReturned == [p \in Parsers |-> None]

----------------------------------------------------------------------------
(* Specification SpecRecap: buildDayRecap on bounded session / git lists *)

MaxSessions == 3
MaxGit == 2

\* what a session contributes to the aggregates
SessionProfiles == {
    [costUsd |-> 5,  messageCount |-> 1, tokens |-> 7,  durationMs |-> 0,     tool |-> "codex"],
    [costUsd |-> 5,  messageCount |-> 3, tokens |-> 0,  durationMs |-> 60000, tool |-> "cursor"],
    [costUsd |-> 10, messageCount |-> 2, tokens |-> 40, durationMs |-> 1000,  tool |-> "codex"] }

InputSession(path, prof) ==
    [id |-> "s", tool |-> prof.tool, projectPath |-> path,
     startedAt |-> 0, endedAt |-> prof.durationMs, durationMs |-> prof.durationMs,
     messageCount |-> prof.messageCount,
     userMessageCount |-> 1, assistantMessageCount |-> prof.messageCount - 1,
     tokens |-> [emptyTokenUsage EXCEPT !.input = prof.tokens, !.total = prof.tokens],
     costUsd |-> prof.costUsd, models |-> <<>>, toolCallSummaries |-> <<>>]

InputSessions ==
    {InputSession(path, prof) : path \in {"/repo/a", "/repo/b", NullPath}, prof \in SessionProfiles}

InputGits == {
    [projectPath |-> "/repo/a", commits |-> <<"c1">>],
    [projectPath |-> "/repo/d", commits |-> <<"c2">>],
    [projectPath |-> "/repo/d", commits |-> <<>>],
    [projectPath |-> "/repo/e", commits |-> <<"c3">>] }

InitRecap ==
    /\ date = 0
    /\ storage = EmptyStorage
    /\ returned = NothingReturned
    /\ allSessions \in SeqsUpTo(InputSessions, MaxSessions)
    /\ gitActivities \in SeqsUpTo(InputGits, MaxGit)
    /\ recap = None
    /\ call = None
    /\ ret = None

BuildDayRecap ==
    /\ recap = None
    /\ recap' = Some(buildDayRecap(date, allSessions, gitActivities))
    /\ UNCHANGED <<date, storage, returned, allSessions, gitActivities, call, ret>>

NextRecap == BuildDayRecap

SpecRecap == InitRecap /\ [][NextRecap]_vars

\* C7: the per-project totals of tokens, messages and cost add up to the
\* recap's global totals, the global token total being the one summed over
\* all input sessions.
C7_ProjectSumsEqualGlobal ==
    recap /= None =>
        LET r == Val(recap)
            ps == r.projects
        IN /\ SumSeq([i \in DOMAIN ps |-> ps[i].totalTokens]) = r.totalTokens
           /\ SumSeq([i \in DOMAIN ps |-> ps[i].totalMessages]) = r.totalMessages
           /\ SumSeq([i \in DOMAIN ps |-> ps[i].totalCostUsd]) = r.totalCostUsd
           /\ r.totalTokens = SumSeq([i \in DOMAIN allSessions |-> allSessions[i].tokens.total])

\* a recap with a synthetic bucket holding tokens, a second project, and a
\* retained git-only project
C7_Witness ==
    /\ recap /= None
    /\ Len(Val(recap).projects) >= 3
    /\ \E i \in DOMAIN Val(recap).projects :
          /\ Val(recap).projects[i].projectPath = "__unknown__"
          /\ Val(recap).projects[i].totalTokens > 0
    /\ \E i \in DOMAIN Val(recap).projects : Val(recap).projects[i].totalSessions = 0
    /\ Val(recap).totalTokens > 0

\* position of a project path in encounter order: first session with that
\* key, else (after every session) the first git record with that path
EncounterRank(path) ==
    LET si == {i \in DOMAIN allSessions : projectKey(allSessions[i]) = path}
        gi == {i \in DOMAIN gitActivities : gitActivities[i].projectPath = path}
    IN IF si /= {} THEN CHOOSE i \in si : \A j \in si : i <= j
       ELSE Len(allSessions) + (CHOOSE i \in gi : \A j \in gi : i <= j)

\* C8: projects are ordered by cost descending; equal costs keep encounter
\* order (sessions first, then git activities).
C8_SortedByCostStable ==
    recap /= None =>
        LET ps == Val(recap).projects
        IN \A i, j \in DOMAIN ps :
              i < j =>
                 /\ ps[i].totalCostUsd >= ps[j].totalCostUsd
                 /\ ps[i].totalCostUsd = ps[j].totalCostUsd =>
                       EncounterRank(ps[i].projectPath) < EncounterRank(ps[j].projectPath)

\* the example of the claim: costs [5, 5, 10] met in order [A, B, C] come out [C, A, B]
C8_Witness ==
    /\ recap /= None
    /\ [i \in DOMAIN allSessions |-> allSessions[i].projectPath] = <<"/repo/a", "/repo/b", NullPath>>
    /\ [i \in DOMAIN allSessions |-> allSessions[i].costUsd] = <<5, 5, 10>>
    /\ [i \in DOMAIN Val(recap).projects |-> Val(recap).projects[i].projectPath]
           = <<"__unknown__", "/repo/a", "/repo/b">>


----------------------------------------------------------------------------
(* Specification SpecProjects: buildDayRecap on the sessions of a day and
   the git records collected for them, one record per path at most *)

MaxProjectSessions == 3

\* costs in cents: 1.20 and 0.30
ProjectProfiles == {
    [costUsd |-> 120, messageCount |-> 2, tokens |-> 10, durationMs |-> 0, tool |-> "claude-code"],
    [costUsd |-> 30,  messageCount |-> 1, tokens |-> 4,  durationMs |-> 0, tool |-> "claude-code"] }

ProjectSessions ==
    {InputSession(path, prof) : path \in {"/repo/a", "/repo/b", NullPath}, prof \in ProjectProfiles}

\* what git reports for one path: nothing, a record without commits, a
\* record with one commit
GitReports(path) == {
    <<>>,
    << [projectPath |-> path, commits |-> <<>>] >>,
    << [projectPath |-> path, commits |-> <<"c1">>] >> }

\* gitActivities as the command collects them: one getGitActivity per path
ProjectGits == {ga \o gc : ga \in GitReports("/repo/a"), gc \in GitReports("/repo/c")}

InitProjects ==
    /\ date = 0
    /\ storage = EmptyStorage
    /\ returned = NothingReturned
    /\ allSessions \in SeqsUpTo(ProjectSessions, MaxProjectSessions)
    /\ gitActivities \in ProjectGits
    /\ recap = None
    /\ call = None
    /\ ret = None

NextProjects == BuildDayRecap

SpecProjects == InitProjects /\ [][NextProjects]_vars

\* every path named by an input session (the synthetic bucket for those
\* without one) or by a git record
CandidatePaths ==
    {projectKey(allSessions[i]) : i \in DOMAIN allSessions}
        \cup {gitActivities[i].projectPath : i \in DOMAIN gitActivities}

SessionsAt(path) == {i \in DOMAIN allSessions : projectKey(allSessions[i]) = path}

GitRecordsAt(path) == {i \in DOMAIN gitActivities : gitActivities[i].projectPath = path}

RECURSIVE CostOfSessions(_)
CostOfSessions(I) ==
    IF I = {} THEN 0
    ELSE LET i == CHOOSE k \in I : TRUE
         IN allSessions[i].costUsd + CostOfSessions(I \ {i})

\* C11: the recap holds exactly one project for every path that has a
\* session or a git record with a commit, and none for any other path; the
\* project counts the input sessions of the path, sums their costs and
\* carries the git record supplied for the path.
C11_OneProjectPerActivePath ==
    recap /= None =>
        LET ps == Val(recap).projects
        IN /\ \A path \in CandidatePaths :
                 LET active == \/ SessionsAt(path) /= {}
                               \/ \E g \in GitRecordsAt(path) : Len(gitActivities[g].commits) >= 1
                 IN Cardinality({i \in DOMAIN ps : ps[i].projectPath = path})
                        = IF active THEN 1 ELSE 0
           /\ \A i \in DOMAIN ps :
                 /\ ps[i].projectPath \in CandidatePaths
                 /\ ps[i].totalSessions = Cardinality(SessionsAt(ps[i].projectPath))
                 /\ ps[i].totalCostUsd = CostOfSessions(SessionsAt(ps[i].projectPath))
                 /\ IF GitRecordsAt(ps[i].projectPath) = {} THEN ps[i].git = None
                    ELSE \E g \in GitRecordsAt(ps[i].projectPath) :
                            ps[i].git = Some(gitActivities[g])

\* the scenario of the claim: two sessions in /repo/a costing 1.20 and 0.30,
\* one commit in /repo/a, and a path with neither sessions nor commits
C11_Witness ==
    /\ recap /= None
    /\ [i \in DOMAIN allSessions |-> allSessions[i].projectPath] = <<"/repo/a", "/repo/a">>
    /\ [i \in DOMAIN allSessions |-> allSessions[i].costUsd] = <<120, 30>>
    /\ gitActivities = << [projectPath |-> "/repo/a", commits |-> <<"c1">>],
                          [projectPath |-> "/repo/c", commits |-> <<>>] >>
    /\ Len(Val(recap).projects) = 1
    /\ Val(recap).projects[1].projectPath = "/repo/a"
    /\ Val(recap).projects[1].totalSessions = 2
    /\ Val(recap).projects[1].totalCostUsd = 150
    /\ Len(Val(Val(recap).projects[1].git).commits) = 1

----------------------------------------------------------------------------
(* Specification SpecCost: estimateCost on bounded token counts *)

MaxTokens == 2

TokenComponents == {"input", "output", "reasoning", "cacheRead", "cacheWrite"}

TokenUsages(n) ==
    {[input |-> i, output |-> o, reasoning |-> r, cacheRead |-> cr, cacheWrite |-> cw,
      total |-> i + o + r + cr + cw] :
        i \in 0..n, o \in 0..n, r \in 0..n, cr \in 0..n, cw \in 0..n}

\* exact key, upper-case spelling, dated variant of a key, fragment of a key,
\* key without cache prices, unknown model
CostModels == {
    <<"gpt", "4o">>, <<"GPT", "4O">>, <<"gpt", "4o", "2024">>, <<"claude">>,
    <<"claude", "3", "opus", "20240229">>, <<"claude", "3", "5", "haiku", "20241022">>,
    <<"o1", "mini">>, <<"llama", "3">> }

InitCost ==
    /\ date = 0
    /\ storage = EmptyStorage
    /\ returned = NothingReturned
    /\ allSessions = <<>>
    /\ gitActivities = <<>>
    /\ recap = None
    /\ call \in [fn : {"estimateCost"}, model : CostModels, tokens : TokenUsages(MaxTokens)]
    /\ ret = None

EstimateCost ==
    /\ ret = None
    /\ call.fn = "estimateCost"
    /\ ret' = Some(estimateCost(call.model, call.tokens))
    /\ UNCHANGED <<date, storage, returned, allSessions, gitActivities, recap, call>>

NextCost == EstimateCost

SpecCost == InitCost /\ [][NextCost]_vars

\* C10: for a fixed model the cost does not decrease when one token component
\* grows, no component contributes a negative amount, and the cost is >= 0.
C10_CostMonotone ==
    (ret /= None /\ call.fn = "estimateCost") =>
        LET m == call.model
            t == call.tokens
            c == Val(ret)
        IN /\ c >= 0
           /\ \A f \in TokenComponents :
                 /\ \A v \in (t[f] + 1)..(MaxTokens + 1) :
                       estimateCost(m, [t EXCEPT ![f] = v]) >= c
                 /\ c - estimateCost(m, [t EXCEPT ![f] = 0]) >= 0

\* a priced call with every component present, on a key whose cache prices
\* come from the defaults
C10_Witness ==
    /\ ret /= None
    /\ call.fn = "estimateCost"
    /\ call.model = <<"claude", "3", "opus", "20240229">>
    /\ \A f \in TokenComponents : call.tokens[f] > 0
    /\ Val(ret) = call.tokens.input * 150000 + call.tokens.output * 750000
                    + call.tokens.cacheRead * 15000 + call.tokens.cacheWrite * 187500


----------------------------------------------------------------------------
(* Claude Code: deduplication of streamed assistant chunks *)

\* position of the last message carrying message.id = id
LastIndexOfId(msgs, id) ==
    CHOOSE i \in DOMAIN msgs :
        /\ msgs[i].id = id
        /\ \A j \in DOMAIN msgs : msgs[j].id = id => j <= i

\* the mutant of deduplicateAssistant used for C6: only a chunk directly
\* followed by a chunk of the same message is dropped
deduplicateAdjacent(msgs) ==
    LET keep == {i \in DOMAIN msgs : i = Len(msgs) \/ msgs[i + 1].id /= msgs[i].id}
        idx  == SelectSeq([i \in DOMAIN msgs |-> i], LAMBDA i : i \in keep)
    IN [k \in DOMAIN idx |-> msgs[idx[k]]]

\* byMsgId.set(key, msg) for every msg, then [...byMsgId.values()]: keys in
\* order of first insertion, each with the value set last
deduplicateAssistant(msgs) ==
    LET keys == UniqueInOrder([i \in DOMAIN msgs |-> msgs[i].id])
    IN [k \in DOMAIN keys |-> msgs[LastIndexOfId(msgs, keys[k])]]

----------------------------------------------------------------------------
(* Specification SpecDedup: deduplicateAssistant on bounded chunk lists *)

MaxChunks == 4

AssistantChunks == [id : {"msg_a", "msg_b", "msg_c"}, chunk : {1, 2}]

InitDedup ==
    /\ date = 0
    /\ storage = EmptyStorage
    /\ returned = NothingReturned
    /\ allSessions = <<>>
    /\ gitActivities = <<>>
    /\ recap = None
    /\ call \in [fn : {"deduplicateAssistant"}, msgs : SeqsUpTo(AssistantChunks, MaxChunks)]
    /\ ret = None

DeduplicateAssistant ==
    /\ ret = None
    /\ call.fn = "deduplicateAssistant"
    /\ ret' = Some(deduplicateAssistant(call.msgs))
    /\ UNCHANGED <<date, storage, returned, allSessions, gitActivities, recap, call>>

NextDedup == DeduplicateAssistant

SpecDedup == InitDedup /\ [][NextDedup]_vars

\* C6: deduplicating the deduplicated list changes nothing, and the
\* deduplicated list holds at most one message per message id.
C6_DedupIdempotent ==
    (ret /= None /\ call.fn = "deduplicateAssistant") =>
        LET once == Val(ret)
        IN /\ deduplicateAssistant(once) = once
           /\ \A i, j \in DOMAIN once : once[i].id = once[j].id => i = j

\* interleaved chunks of two messages were collapsed to one message each
C6_Witness ==
    /\ ret /= None
    /\ call.fn = "deduplicateAssistant"
    /\ call.msgs = << [id |-> "msg_a", chunk |-> 1], [id |-> "msg_b", chunk |-> 1],
                      [id |-> "msg_a", chunk |-> 2] >>
    /\ Val(ret) = << [id |-> "msg_a", chunk |-> 2], [id |-> "msg_b", chunk |-> 1] >>

----------------------------------------------------------------------------
(* Gap-capped duration estimation *)

\* 5 * 60 * 1000
MAX_GAP_MS == 300000

\* [...].sort((a, b) => a - b)
sortNumeric(timestamps) == SortAscBy(LAMBDA t : t, timestamps)

\* the mutant of estimateDurationMs used for C9: the gap is added uncapped
estimateDurationUncapped(timestamps) ==
    IF Len(timestamps) < 2 THEN 0
    ELSE SumSeq([i \in 1..(Len(timestamps) - 1) |->
                    IF timestamps[i + 1] - timestamps[i] > 0
                    THEN timestamps[i + 1] - timestamps[i] ELSE 0])

RECURSIVE GapLoop(_, _, _)
\* for (let i = 1; i < timestamps.length; i++) of estimateDurationMs
GapLoop(timestamps, i, durationMs) ==
    IF i >= Len(timestamps) THEN durationMs
    ELSE LET gap == timestamps[i + 1] - timestamps[i]
         IN GapLoop(timestamps, i + 1,
                    IF gap > 0 THEN durationMs + Min(gap, MAX_GAP_MS) ELSE durationMs)

\* CodexParser.estimateDurationMs (the caller passes a sorted list)
estimateDurationMs(timestamps) ==
    IF Len(timestamps) < 2 THEN 0 ELSE GapLoop(timestamps, 1, 0)

\* CodexParser.parseJsonlSession: the duration of the day's chat and tool events
codexDurationMs(eventTs) == estimateDurationMs(sortNumeric(eventTs))

RECURSIVE ClaudeGapLoop(_, _, _)
\* ClaudeCodeParser.buildSessionFromJsonl: the same loop without the gap > 0 test
ClaudeGapLoop(timestamps, i, totalDurationMs) ==
    IF i >= Len(timestamps) THEN totalDurationMs
    ELSE ClaudeGapLoop(timestamps, i + 1,
                       totalDurationMs + Min(timestamps[i + 1] - timestamps[i], MAX_GAP_MS))

claudeJsonlDurationMs(eventTs) == ClaudeGapLoop(sortNumeric(eventTs), 1, 0)

----------------------------------------------------------------------------
(* Specification SpecDuration: the two duration estimators on bounded lists *)

MaxEvents == 3

DurationTimes == {0, 60000, 360000, 1000000}

InitDuration ==
    /\ date = 0
    /\ storage = EmptyStorage
    /\ returned = NothingReturned
    /\ allSessions = <<>>
    /\ gitActivities = <<>>
    /\ recap = None
    /\ call \in [fn : {"estimateDurationMs"}, timestamps : SeqsUpTo(DurationTimes, MaxEvents)]
    /\ ret = None

CodexEstimateDuration ==
    /\ ret = None
    /\ call.fn = "estimateDurationMs"
    /\ ret' = Some([by |-> "codex", durationMs |-> codexDurationMs(call.timestamps)])
    /\ UNCHANGED <<date, storage, returned, allSessions, gitActivities, recap, call>>

ClaudeEstimateDuration ==
    /\ ret = None
    /\ call.fn = "estimateDurationMs"
    /\ ret' = Some([by |-> "claude-code", durationMs |-> claudeJsonlDurationMs(call.timestamps)])
    /\ UNCHANGED <<date, storage, returned, allSessions, gitActivities, recap, call>>

NextDuration == CodexEstimateDuration \/ ClaudeEstimateDuration

SpecDuration == InitDuration /\ [][NextDuration]_vars

\* the i-th smallest element of ts: the value v with
\* #{elements < v} < i <= #{elements <= v}
NthSmallest(ts, i) ==
    CHOOSE v \in Range(ts) :
        /\ Cardinality({j \in DOMAIN ts : ts[j] < v}) < i
        /\ Cardinality({j \in DOMAIN ts : ts[j] <= v}) >= i

RECURSIVE CappedGapSum(_, _)
\* sum over i = 1..n of the capped positive gap between the i-th and the
\* (i+1)-th smallest timestamp
CappedGapSum(ts, n) ==
    IF n <= 0 THEN 0
    ELSE LET gap == NthSmallest(ts, n + 1) - NthSmallest(ts, n)
         IN CappedGapSum(ts, n - 1)
              + (IF gap <= 0 THEN 0 ELSE IF gap < MAX_GAP_MS THEN gap ELSE MAX_GAP_MS)

\* C9: the estimate is the sum, over consecutive pairs of the ascending
\* timestamps, of min(gap, 300000) for gaps > 0; fewer than two timestamps
\* give 0.
C9_GapCappedDuration ==
    (ret /= None /\ call.fn = "estimateDurationMs") =>
        /\ Val(ret).durationMs = CappedGapSum(call.timestamps, Len(call.timestamps) - 1)
        /\ Len(call.timestamps) < 2 => Val(ret).durationMs = 0

\* the example of the claim, given unsorted: [1000000, 0, 60000] -> 360000
C9_Witness ==
    /\ ret /= None
    /\ call.fn = "estimateDurationMs"
    /\ call.timestamps = <<1000000, 0, 60000>>
    /\ Val(ret).by = "codex"
    /\ Val(ret).durationMs = 360000


----------------------------------------------------------------------------
(* Codex: cumulative-token delta reconstruction *)

\* [...snapshots].sort((a, b) => a.ts - b.ts)
sortSnapshots(snapshots) == SortAscBy(LAMBDA sn : sn.ts, snapshots)

\* a variant of lastAtOrBefore that leaves out a snapshot taken exactly at
\* maxTs
lastAtOrBeforeExclusive(arr, maxTs) ==
    LET idx == {i \in DOMAIN arr : arr[i].ts < maxTs}
    IN IF idx = {} THEN None ELSE Some(arr[CHOOSE i \in idx : \A j \in idx : j <= i])

\* lastAtOrBefore(arr, maxTs): scan from the end for ts <= maxTs
lastAtOrBefore(arr, maxTs) ==
    LET idx == {i \in DOMAIN arr : arr[i].ts <= maxTs}
    IN IF idx = {} THEN None ELSE Some(arr[CHOOSE i \in idx : \A j \in idx : j <= i])

\* the mutant of lastBefore used for C5: a snapshot taken exactly at the
\* window start counts as "before"
lastBeforeInclusive(arr, minTs) ==
    LET idx == {i \in DOMAIN arr : arr[i].ts <= minTs}
    IN IF idx = {} THEN None ELSE Some(arr[CHOOSE i \in idx : \A j \in idx : j <= i])

\* lastBefore(arr, minTs): scan from the end for ts < minTs
lastBefore(arr, minTs) ==
    LET idx == {i \in DOMAIN arr : arr[i].ts < minTs}
    IN IF idx = {} THEN None ELSE Some(arr[CHOOSE i \in idx : \A j \in idx : j <= i])

\* the mutant of computeDayTokenUsage used for C20: the cached delta is
\* subtracted from the input delta without the clamp
computeDayTokenUsageUnclampedInput(snapshots, startMs, endMs) ==
    IF Len(snapshots) = 0 THEN emptyTokenUsage
    ELSE LET sorted == sortSnapshots(snapshots)
             end    == lastAtOrBefore(sorted, endMs)
             start  == lastBefore(sorted, startMs)
         IN IF end = None THEN emptyTokenUsage
            ELSE LET inputDelta  == Max(0, Val(end).input - (IF start = None THEN 0 ELSE Val(start).input))
                     cachedDelta == Max(0, Val(end).cachedInput - (IF start = None THEN 0 ELSE Val(start).cachedInput))
                     output      == Max(0, Val(end).output - (IF start = None THEN 0 ELSE Val(start).output))
                     reasoning   == Max(0, Val(end).reasoning - (IF start = None THEN 0 ELSE Val(start).reasoning))
                     input       == inputDelta - cachedDelta
                     cacheRead   == cachedDelta
                 IN [input |-> input, output |-> output, reasoning |-> reasoning,
                     cacheRead |-> cacheRead, cacheWrite |-> 0,
                     total |-> input + output + reasoning + cacheRead]

computeDayTokenUsage(snapshots, startMs, endMs) ==
    IF Len(snapshots) = 0 THEN emptyTokenUsage
    ELSE LET sorted == sortSnapshots(snapshots)
             end    == lastAtOrBefore(sorted, endMs)
             start  == lastBefore(sorted, startMs)
         IN IF end = None THEN emptyTokenUsage
            ELSE LET inputDelta  == Max(0, Val(end).input - (IF start = None THEN 0 ELSE Val(start).input))
                     cachedDelta == Max(0, Val(end).cachedInput - (IF start = None THEN 0 ELSE Val(start).cachedInput))
                     output      == Max(0, Val(end).output - (IF start = None THEN 0 ELSE Val(start).output))
                     reasoning   == Max(0, Val(end).reasoning - (IF start = None THEN 0 ELSE Val(start).reasoning))
                     input       == Max(0, inputDelta - cachedDelta)
                     cacheRead   == cachedDelta
                 IN [input |-> input, output |-> output, reasoning |-> reasoning,
                     cacheRead |-> cacheRead, cacheWrite |-> 0,
                     total |-> input + output + reasoning + cacheRead]

----------------------------------------------------------------------------
(* Specification SpecTokenDelta: computeDayTokenUsage on bounded snapshot lists *)

MaxSnapshots == 3

\* cumulative counters as a token_count event reports them; the third is
\* lower than the others (a counter reset), the fourth has more cached than
\* raw input, the last is negative (any finite number passes asNumber)
SnapshotCounters == {
    [input |-> 10, cachedInput |-> 4,  output |-> 5, reasoning |-> 1],
    [input |-> 20, cachedInput |-> 4,  output |-> 8, reasoning |-> 3],
    [input |-> 6,  cachedInput |-> 0,  output |-> 2, reasoning |-> 0],
    [input |-> 12, cachedInput |-> 15, output |-> 8, reasoning |-> 2],
    [input |-> 30, cachedInput |-> 20, output |-> 9, reasoning |-> 4],
    [input |-> -3, cachedInput |-> -7, output |-> -1, reasoning |-> -2] }

\* instants around the window of day d: just before it, its first and last
\* millisecond, just after it
EdgeTimes(d) == {dayStartMs(d) - 1, dayStartMs(d), dayEndMs(d), dayEndMs(d) + 1}

TokenSnapshots(d) ==
    {[ts |-> t, input |-> c.input, cachedInput |-> c.cachedInput,
      output |-> c.output, reasoning |-> c.reasoning] :
        t \in EdgeTimes(d), c \in SnapshotCounters}

InitTokenDelta ==
    /\ date = 1
    /\ storage = EmptyStorage
    /\ returned = NothingReturned
    /\ allSessions = <<>>
    /\ gitActivities = <<>>
    /\ recap = None
    /\ call \in [fn : {"computeDayTokenUsage"},
                 snapshots : SeqsUpTo(TokenSnapshots(1), MaxSnapshots)]
    /\ ret = None

ComputeDayTokenUsage ==
    /\ ret = None
    /\ call.fn = "computeDayTokenUsage"
    /\ ret' = Some(computeDayTokenUsage(call.snapshots, dayStartMs(date), dayEndMs(date)))
    /\ UNCHANGED <<date, storage, returned, allSessions, gitActivities, recap, call>>

NextTokenDelta == ComputeDayTokenUsage

SpecTokenDelta == InitTokenDelta /\ [][NextTokenDelta]_vars

ZeroCounters == [input |-> 0, cachedInput |-> 0, output |-> 0, reasoning |-> 0]

\* the latest snapshot among those whose ts satisfies Ok (of equal instants,
\* the one logged last), <<>> if there is none
LatestSnapshot(snaps, Ok(_)) ==
    LET idx == {i \in DOMAIN snaps : Ok(snaps[i].ts)}
    IN IF idx = {} THEN None
       ELSE Some(snaps[CHOOSE i \in idx :
                    \A j \in idx : snaps[j].ts < snaps[i].ts \/ (snaps[j].ts = snaps[i].ts /\ j <= i)])

S1 == LatestSnapshot(call.snapshots, LAMBDA t : t <= dayEndMs(date))
S0 == LET s == LatestSnapshot(call.snapshots, LAMBDA t : t < dayStartMs(date))
      IN IF s = None THEN ZeroCounters ELSE Val(s)

ClampedDelta(f) == IF Val(S1)[f] - S0[f] > 0 THEN Val(S1)[f] - S0[f] ELSE 0

\* C5 as stated: every field of the usage, input included, is the clamped
\* difference of the same counter of S1 and S0 (all zero without S1).
C5_Original_EveryFieldIsClampedDelta ==
    (ret /= None /\ call.fn = "computeDayTokenUsage") =>
        IF S1 = None THEN Val(ret) = emptyTokenUsage
        ELSE /\ Val(ret).input = ClampedDelta("input")
             /\ Val(ret).output = ClampedDelta("output")
             /\ Val(ret).reasoning = ClampedDelta("reasoning")
             /\ Val(ret).cacheRead = ClampedDelta("cachedInput")

\* C5 (amended): output, reasoning and cacheRead are the clamped differences
\* of S1 and S0 (cacheRead that of the cached-input counter); input is the
\* clamped raw-input difference less cacheRead, clamped at zero again;
\* cacheWrite is 0; the usage is all-zero when no snapshot lies at or before
\* the window end.
C5_TokenDelta ==
    (ret /= None /\ call.fn = "computeDayTokenUsage") =>
        IF S1 = None THEN Val(ret) = emptyTokenUsage
        ELSE /\ Val(ret).output = ClampedDelta("output")
             /\ Val(ret).reasoning = ClampedDelta("reasoning")
             /\ Val(ret).cacheRead = ClampedDelta("cachedInput")
             /\ Val(ret).input =
                   (IF ClampedDelta("input") - ClampedDelta("cachedInput") > 0
                    THEN ClampedDelta("input") - ClampedDelta("cachedInput") ELSE 0)
             /\ Val(ret).cacheWrite = 0

\* a usage computed from a snapshot before the window and a later one inside
\* it, logged out of order, with cache hits in the window
C5_Witness ==
    /\ ret /= None
    /\ call.fn = "computeDayTokenUsage"
    /\ Len(call.snapshots) = 3
    /\ call.snapshots[1].ts = dayEndMs(date)
    /\ call.snapshots[2].ts = dayStartMs(date) - 1
    /\ call.snapshots[3].ts = dayEndMs(date) + 1
    /\ S0.input = 10
    /\ Val(S1).input = 30
    /\ Val(ret) = [input |-> 4, output |-> 4, reasoning |-> 3, cacheRead |-> 16,
                   cacheWrite |-> 0, total |-> 27]


----------------------------------------------------------------------------
(* Codex parser (log-file source) *)

\* A parsed JSONL entry: type is the top-level type, sub the payload.type,
\* ts the top-level or payload timestamp (absent when missing or unparsable),
\* role / text the chat role and extracted text, name the tool name, counters
\* the total_token_usage of a token_count event, model the turn_context model
\* (<<>> when there is none).

\* extractTimestampMs / extractSessionTimestampMs read the same two fields
extractTimestampMs(entry) == entry.ts
extractSessionTimestampMs(firstEntry) == firstEntry.ts

chatRole(roleRaw) ==
    IF roleRaw = "user" THEN Some("User")
    ELSE IF roleRaw = "assistant" THEN Some("Assistant") ELSE None

\* chats pushed to eventChats by one entry
eventChatsOf(entry) ==
    IF /\ entry.type = "event_msg"
       /\ entry.sub \in {"user_message", "agent_message"}
       /\ entry.text /= ""
       /\ entry.ts /= None
    THEN << [ts |-> Val(entry.ts),
             role |-> IF entry.sub = "user_message" THEN "User" ELSE "Assistant"] >>
    ELSE <<>>

\* chats pushed to legacyChats by one entry
legacyChatsOf(entry, lines, startMs) ==
    IF /\ entry.type = "response_item" /\ entry.sub = "message"
       /\ chatRole(entry.role) /= None /\ entry.text /= "" /\ entry.ts /= None
    THEN << [ts |-> Val(entry.ts), role |-> Val(chatRole(entry.role))] >>
    ELSE IF entry.type = "message" /\ chatRole(entry.role) /= None /\ entry.text /= ""
    THEN << [ts |-> OrElse(entry.ts, OrElse(extractSessionTimestampMs(lines[1]), startMs)),
             role |-> Val(chatRole(entry.role))] >>
    ELSE <<>>

\* tool events pushed by one entry
toolEventsOf(entry, lines, startMs) ==
    IF /\ entry.type = "response_item" /\ entry.sub = "function_call"
       /\ entry.name /= "" /\ entry.ts /= None
    THEN << [ts |-> Val(entry.ts), name |-> entry.name] >>
    ELSE IF entry.type = "function_call" /\ entry.name /= ""
    THEN << [ts |-> OrElse(entry.ts, OrElse(extractSessionTimestampMs(lines[1]), startMs)),
             name |-> entry.name] >>
    ELSE <<>>

\* extractTokenSnapshot for a token_count event
tokenSnapshotsOf(entry) ==
    IF /\ entry.type = "event_msg" /\ entry.sub = "token_count"
       /\ entry.ts /= None /\ entry.counters /= None
    THEN << [ts |-> Val(entry.ts), input |-> Val(entry.counters).input,
             cachedInput |-> Val(entry.counters).cachedInput,
             output |-> Val(entry.counters).output,
             reasoning |-> Val(entry.counters).reasoning] >>
    ELSE <<>>

modelsOf(entry) ==
    IF entry.type = "turn_context" /\ entry.model /= <<>> THEN <<entry.model>> ELSE <<>>

MinOfSet(S) == CHOOSE x \in S : \A y \in S : x <= y
MaxOfSet(S) == CHOOSE x \in S : \A y \in S : y <= x

\* if (dayChats.length === 0 && dayTools.length === 0) return null
hasNoDayActivity(dayChats, dayTools) == Len(dayChats) = 0 /\ Len(dayTools) = 0

\* const overlapsDay = earliestTs <= dayEndMs && latestTs >= dayStartMs
intervalOverlapsDay(earliestTs, latestTs, startMs, endMs) ==
    earliestTs <= endMs /\ latestTs >= startMs


parseJsonlSession(lines, startMs, endMs) ==
    IF Len(lines) = 0 THEN None
    ELSE
    LET stamped     == {Val(lines[i].ts) : i \in {j \in DOMAIN lines : extractTimestampMs(lines[j]) /= None}}
        headerTs    == extractSessionTimestampMs(lines[1])
        eventChats  == FlatSeq([i \in DOMAIN lines |-> eventChatsOf(lines[i])])
        legacyChats == FlatSeq([i \in DOMAIN lines |-> legacyChatsOf(lines[i], lines, startMs)])
        toolEvents  == FlatSeq([i \in DOMAIN lines |-> toolEventsOf(lines[i], lines, startMs)])
        snapshots   == FlatSeq([i \in DOMAIN lines |-> tokenSnapshotsOf(lines[i])])
        modelList   == UniqueInOrder(FlatSeq([i \in DOMAIN lines |-> modelsOf(lines[i])]))
    IN
    IF stamped = {} /\ headerTs = None THEN None
    ELSE
    LET earliestTs == IF stamped = {} THEN Val(headerTs) ELSE MinOfSet(stamped)
        latestTs   == IF stamped = {} THEN Val(headerTs) ELSE MaxOfSet(stamped)
        chats      == IF Len(eventChats) > 0 THEN eventChats ELSE legacyChats
        dayChats   == SelectSeq(chats, LAMBDA m : m.ts >= startMs /\ m.ts <= endMs)
        dayTools   == SelectSeq(toolEvents, LAMBDA t : t.ts >= startMs /\ t.ts <= endMs)
    IN
    IF ~intervalOverlapsDay(earliestTs, latestTs, startMs, endMs) THEN None
    ELSE IF hasNoDayActivity(dayChats, dayTools) THEN None
    ELSE
    LET tokenUsage == computeDayTokenUsage(snapshots, startMs, endMs)
        timestamps == sortNumeric([i \in DOMAIN dayChats |-> dayChats[i].ts]
                                  \o [i \in DOMAIN dayTools |-> dayTools[i].ts])
    IN Some([id |-> "codex-session",
             tool |-> "codex",
             startedAt |-> IF Len(timestamps) > 0 THEN timestamps[1] ELSE Max(startMs, earliestTs),
             endedAt |-> IF Len(timestamps) > 0 THEN timestamps[Len(timestamps)] ELSE Min(endMs, latestTs),
             durationMs |-> estimateDurationMs(timestamps),
             messageCount |-> Len(dayChats),
             userMessageCount |-> Len(SelectSeq(dayChats, LAMBDA m : m.role = "User")),
             assistantMessageCount |-> Len(SelectSeq(dayChats, LAMBDA m : m.role = "Assistant")),
             tokens |-> tokenUsage,
             costUsd |-> IF tokenUsage.total > 0 /\ Len(modelList) > 0
                         THEN estimateCost(modelList[1], tokenUsage) ELSE 0,
             models |-> modelList,
             \* toolSummariesSet: summarizeToolCall gives the tool name
             toolCallSummaries |-> UniqueInOrder([i \in DOMAIN dayTools |-> dayTools[i].name])])

\* A legacy .json session: session.timestamp and the items array
parseLegacyJsonSession(file, startMs, endMs) ==
    IF file.sessionTs = None THEN None
    ELSE IF Val(file.sessionTs) < startMs \/ Val(file.sessionTs) > endMs THEN None
    ELSE
    LET sessionTs == Val(file.sessionTs)
        items     == file.entries
        chats     == SelectSeq(items, LAMBDA it :
                        it.type = "message" /\ chatRole(it.role) /= None /\ it.text /= "")
        toolEvents == SelectSeq(items, LAMBDA it : it.type = "function_call" /\ it.name /= "")
    IN IF Len(chats) = 0 /\ Len(toolEvents) = 0 THEN None
       ELSE Some([id |-> "codex-session",
                  tool |-> "codex",
                  startedAt |-> sessionTs,
                  endedAt |-> sessionTs,
                  durationMs |-> 0,
                  messageCount |-> Len(chats),
                  userMessageCount |-> Len(SelectSeq(chats, LAMBDA m : m.role = "user")),
                  assistantMessageCount |-> Len(SelectSeq(chats, LAMBDA m : m.role = "assistant")),
                  tokens |-> emptyTokenUsage,
                  costUsd |-> 0,
                  models |-> <<>>,
                  toolCallSummaries |->
                      UniqueInOrder([i \in DOMAIN toolEvents |-> toolEvents[i].name])])

\* CodexParser.getSessions over the session files found for the date
codexGetSessions(files, d) ==
    FlatSeq([i \in DOMAIN files |->
                IF files[i].format = "jsonl"
                THEN parseJsonlSession(files[i].entries, dayStartMs(d), dayEndMs(d))
                ELSE parseLegacyJsonSession(files[i], dayStartMs(d), dayEndMs(d))])


----------------------------------------------------------------------------
(* Claude Code parser (relational store first, session log file as fallback) *)

\* 5 * 60 * 1000
MAX_MSG_DURATION_MS == 300000

\* a variant of the day-overlap test without its third clause
overlapsDayTwoClauses(created, modified, startMs, endMs) ==
    /\ created /= None
    /\ modified /= None
    /\ \/ (Val(created) >= startMs /\ Val(created) <= endMs)
       \/ (Val(modified) >= startMs /\ Val(modified) <= endMs)

\* the three-clause day-overlap test on an index entry; created / modified
\* are absent when the ISO string does not parse (NaN compares false)
overlapsDay(created, modified, startMs, endMs) ==
    /\ created /= None
    /\ modified /= None
    /\ \/ (Val(created) >= startMs /\ Val(created) <= endMs)
       \/ (Val(modified) >= startMs /\ Val(modified) <= endMs)
       \/ (Val(created) <= startMs /\ Val(modified) >= endMs)

\* usage of a deduplicated assistant message / of a store row, as a TokenUsage
\* without reasoning; the total is filled in after the loop
usageTokens(usage) ==
    IF usage = None THEN emptyTokenUsage
    ELSE [emptyTokenUsage EXCEPT !.input = Val(usage).input,
                                 !.output = Val(usage).output,
                                 !.cacheRead = Val(usage).cacheRead,
                                 !.cacheWrite = Val(usage).cacheWrite]

\* the += loop over usages followed by
\* totalTokens.total = input + output + cacheRead + cacheWrite
claudeTotalTokens(usages) ==
    LET acc == sumTokens([i \in DOMAIN usages |-> usageTokens(usages[i])])
    IN [acc EXCEPT !.total = acc.input + acc.output + acc.cacheRead + acc.cacheWrite]

modelSet(rows) ==
    LET named == SelectSeq(rows, LAMBDA r : r.model /= <<>>)
    IN UniqueInOrder([i \in DOMAIN named |-> named[i].model])

\* the rows the two windowed SELECTs return, ORDER BY b.timestamp
windowedRows(rows, startMs, endMs) ==
    SortAscBy(LAMBDA r : r.timestamp,
              SelectSeq(rows, LAMBDA r : r.timestamp >= startMs /\ r.timestamp <= endMs))

\* parseJsonlFile: the user / assistant lines whose timestamp is in the window
parseJsonlFile(lines, role, startMs, endMs) ==
    SelectSeq(lines, LAMBDA l :
        l.type = role /\ l.ts /= None /\ Val(l.ts) >= startMs /\ Val(l.ts) <= endMs)

\* the digest parts of extractContentFromMessages: user lines then
\* assistant lines, sorted by timestamp; every user text, and the text of
\* an assistant line unless its message id was seen on an earlier line
RECURSIVE DigestLoop(_, _, _)
DigestLoop(all, seenMsgIds, digestParts) ==
    IF all = <<>> THEN digestParts
    ELSE LET msg  == Head(all)
             rest == Tail(all)
         IN IF msg.type = "user"
            THEN DigestLoop(rest, seenMsgIds, Append(digestParts, <<"User", msg.text>>))
            ELSE IF msg.id \in seenMsgIds
            THEN DigestLoop(rest, seenMsgIds, digestParts)
            ELSE DigestLoop(rest, seenMsgIds \cup {msg.id},
                            IF msg.text /= "" THEN Append(digestParts, <<"Assistant", msg.text>>)
                            ELSE digestParts)

extractContentFromMessages(user, assistant) ==
    DigestLoop(SortAscBy(LAMBDA m : Val(m.ts), user \o assistant), {}, <<>>)

\* the toolCallSummaries of extractContentFromMessages: one entry per
\* tool_use block of every assistant line not skipped as a repeated id
RECURSIVE ToolLoop(_, _, _)
ToolLoop(all, seenMsgIds, toolSummaries) ==
    IF all = <<>> THEN toolSummaries
    ELSE LET msg  == Head(all)
             rest == Tail(all)
         IN IF msg.type = "user" THEN ToolLoop(rest, seenMsgIds, toolSummaries)
            ELSE IF msg.id \in seenMsgIds THEN ToolLoop(rest, seenMsgIds, toolSummaries)
            ELSE ToolLoop(rest, seenMsgIds \cup {msg.id},
                          IF msg.toolUse /= "" THEN Append(toolSummaries, msg.toolUse)
                          ELSE toolSummaries)

toolSummariesFromMessages(user, assistant) ==
    ToolLoop(SortAscBy(LAMBDA m : Val(m.ts), user \o assistant), {}, <<>>)

toolSummariesFromJsonl(entry, startMs, endMs) ==
    IF ~entry.fileExists THEN <<>>
    ELSE toolSummariesFromMessages(parseJsonlFile(entry.lines, "user", startMs, endMs),
                                   parseJsonlFile(entry.lines, "assistant", startMs, endMs))

\* extractContentFromJsonl: nothing when the log file is missing
extractContentFromJsonl(entry, startMs, endMs) ==
    IF ~entry.fileExists THEN <<>>
    ELSE extractContentFromMessages(parseJsonlFile(entry.lines, "user", startMs, endMs),
                                    parseJsonlFile(entry.lines, "assistant", startMs, endMs))

buildSessionFromDb(entry, startMs, endMs, db) ==
    IF db.broken THEN None      \* a query throws: catch { return null }
    ELSE
    LET assistantRows == windowedRows(db.assistantRows, startMs, endMs)
        userRows      == windowedRows(db.userRows, startMs, endMs)
        totalMessages == Len(assistantRows) + Len(userRows)
    IN
    IF totalMessages = 0 THEN None
    ELSE
    LET dbCost   == SumSeq([i \in DOMAIN assistantRows |->
                              IF Truthy(assistantRows[i].cost_usd)
                              THEN Val(assistantRows[i].cost_usd) ELSE 0])
        duration == SumSeq([i \in DOMAIN assistantRows |->
                              IF Truthy(assistantRows[i].duration_ms)
                              THEN Min(Val(assistantRows[i].duration_ms), MAX_MSG_DURATION_MS)
                              ELSE 0])
        models   == modelSet(assistantRows)
        tokens   == claudeTotalTokens([i \in DOMAIN assistantRows |-> assistantRows[i].usage])
        allTs    == {assistantRows[i].timestamp : i \in DOMAIN assistantRows}
                        \cup {userRows[i].timestamp : i \in DOMAIN userRows}
    IN Some([id |-> entry.sessionId,
             tool |-> "claude-code",
             startedAt |-> Max(startMs, MinOfSet(allTs)),
             endedAt |-> Min(endMs, MaxOfSet(allTs)),
             durationMs |-> duration,
             messageCount |-> totalMessages,
             userMessageCount |-> Len(userRows),
             assistantMessageCount |-> Len(assistantRows),
             tokens |-> tokens,
             costUsd |-> IF dbCost = 0 /\ tokens.total > 0 /\ Len(models) > 0
                         THEN estimateCost(models[1], tokens) ELSE dbCost,
             models |-> models,
             conversationDigest |-> extractContentFromJsonl(entry, startMs, endMs),
             toolCallSummaries |-> toolSummariesFromJsonl(entry, startMs, endMs)])

buildSessionFromJsonl(entry, startMs, endMs) ==
    IF ~entry.fileExists THEN None
    ELSE
    LET user      == parseJsonlFile(entry.lines, "user", startMs, endMs)
        assistant == parseJsonlFile(entry.lines, "assistant", startMs, endMs)
    IN
    IF Len(user) = 0 /\ Len(assistant) = 0 THEN None
    ELSE
    LET dedupedAssistant == deduplicateAssistant(assistant)
        models  == modelSet(dedupedAssistant)
        tokens  == claudeTotalTokens([i \in DOMAIN dedupedAssistant |-> dedupedAssistant[i].usage])
        allTimestamps == sortNumeric([i \in DOMAIN user |-> Val(user[i].ts)]
                                     \o [i \in DOMAIN assistant |-> Val(assistant[i].ts)])
    IN Some([id |-> entry.sessionId,
             tool |-> "claude-code",
             startedAt |-> Max(startMs, allTimestamps[1]),
             endedAt |-> Min(endMs, allTimestamps[Len(allTimestamps)]),
             durationMs |-> ClaudeGapLoop(allTimestamps, 1, 0),
             messageCount |-> Len(user) + Len(dedupedAssistant),
             userMessageCount |-> Len(user),
             assistantMessageCount |-> Len(dedupedAssistant),
             tokens |-> tokens,
             costUsd |-> IF tokens.total > 0 /\ Len(models) > 0
                         THEN estimateCost(models[1], tokens) ELSE 0,
             models |-> models,
             conversationDigest |-> extractContentFromMessages(user, assistant),
             toolCallSummaries |-> toolSummariesFromMessages(user, assistant)])

\* ClaudeCodeParser.buildSession: store first, log file when the store gives nothing
claudeBuildSession(entry, startMs, endMs, db) ==
    IF db /= None /\ buildSessionFromDb(entry, startMs, endMs, Val(db)) /= None
    THEN buildSessionFromDb(entry, startMs, endMs, Val(db))
    ELSE buildSessionFromJsonl(entry, startMs, endMs)

\* ClaudeCodeParser.getSessions over the entries of the sessions index
claudeGetSessions(home, d) ==
    FlatSeq([i \in DOMAIN home.entries |->
                LET entry == home.entries[i]
                IN IF entry.isSidechain THEN <<>>
                   ELSE IF ~overlapsDay(entry.created, entry.modified, dayStartMs(d), dayEndMs(d))
                   THEN <<>>
                   ELSE claudeBuildSession(entry, dayStartMs(d), dayEndMs(d), home.db)])


----------------------------------------------------------------------------
(* Cursor parser (relational key-value source: composers and bubbles) *)

\* getBubbleTimestamp: clientRpcSendTime when truthy, else the parsed
\* createdAt (absent when missing or unparsable), else null
getBubbleTimestamp(bubble) ==
    IF Truthy(bubble.clientRpcSendTime) THEN bubble.clientRpcSendTime
    ELSE IF bubble.createdAt /= None THEN bubble.createdAt
    ELSE None

bubbleInDay(bubble, startMs, endMs) ==
    LET ts == getBubbleTimestamp(bubble)
    IN IF ts = None THEN TRUE ELSE Val(ts) >= startMs /\ Val(ts) <= endMs

\* loadBubbles(...).dayBubbles
loadDayBubbles(composer, startMs, endMs) ==
    LET inlineDay == IF composer.conversation = None THEN <<>>
                     ELSE SelectSeq(Val(composer.conversation),
                                    LAMBDA b : bubbleInDay(b, startMs, endMs))
        \* strategy 2: the header-ordered bubbles found in the KV table that
        \* carry a truthy type
        typed     == SelectSeq(composer.kvBubbles, LAMBDA b : Truthy(b.type))
    IN IF Len(inlineDay) > 0 THEN inlineDay
       ELSE inlineDay \o SelectSeq(typed, LAMBDA b : bubbleInDay(b, startMs, endMs))

cursorBuildSession(composer, bubbles, startMs, endMs) ==
    LET userBubbles == SelectSeq(bubbles, LAMBDA b : b.type = Some(1))
        aiBubbles   == SelectSeq(bubbles, LAMBDA b : b.type = Some(2))
    IN
    IF Len(userBubbles) = 0 /\ Len(aiBubbles) = 0 THEN None
    ELSE
    LET rawModels == [i \in DOMAIN aiBubbles |->
                        IF aiBubbles[i].modelName /= <<>> THEN aiBubbles[i].modelName
                        ELSE composer.modelName]
        named     == UniqueInOrder(SelectSeq(rawModels, LAMBDA m : m /= <<>>))
        models    == IF Len(named) = 0 /\ composer.modelName /= <<>>
                     THEN <<composer.modelName>> ELSE named
        inputSum  == SumSeq([i \in DOMAIN aiBubbles |->
                        IF aiBubbles[i].tokenCount = None THEN 0
                        ELSE Val(aiBubbles[i].tokenCount).inputTokens])
        outputSum == SumSeq([i \in DOMAIN aiBubbles |->
                        IF aiBubbles[i].tokenCount = None THEN 0
                        ELSE Val(aiBubbles[i].tokenCount).outputTokens])
        tokens    == [emptyTokenUsage EXCEPT !.input = inputSum, !.output = outputSum,
                                             !.total = inputSum + outputSum]
        timed     == SumSeq([i \in DOMAIN aiBubbles |->
                        IF /\ Truthy(aiBubbles[i].clientRpcSendTime)
                           /\ Truthy(aiBubbles[i].clientEndTime)
                           /\ Val(aiBubbles[i].clientEndTime) - Val(aiBubbles[i].clientRpcSendTime) > 0
                        THEN Min(Val(aiBubbles[i].clientEndTime) - Val(aiBubbles[i].clientRpcSendTime),
                                 MAX_MSG_DURATION_MS)
                        ELSE 0])
        stampedB  == SelectSeq(bubbles, LAMBDA b : getBubbleTimestamp(b) /= None)
        allTimestamps == [i \in DOMAIN stampedB |-> Val(getBubbleTimestamp(stampedB[i]))]
        sortedTs  == sortNumeric(allTimestamps)
        gaps      == SumSeq([i \in 1..(Len(sortedTs) - 1) |->
                        IF sortedTs[i + 1] - sortedTs[i] > 0
                        THEN Min(sortedTs[i + 1] - sortedTs[i], MAX_MSG_DURATION_MS)
                        ELSE 0])
        duration  == IF timed = 0 /\ Len(bubbles) > 1 THEN gaps ELSE timed
        earliest  == IF Len(allTimestamps) > 0
                     THEN Max(startMs, MinOfSet(Range(allTimestamps)))
                     ELSE OrElse(composer.createdAt, startMs)
        latest    == IF Len(allTimestamps) > 0
                     THEN Min(endMs, MaxOfSet(Range(allTimestamps)))
                     ELSE OrElse(composer.lastUpdatedAt, endMs)
        \* the content loop: bubbles without text are passed over
        withText  == SelectSeq(bubbles, LAMBDA b : b.text /= "")
        spoken    == SelectSeq(withText, LAMBDA b : b.type \in {Some(1), Some(2)})
        withFile  == SelectSeq(withText, LAMBDA b : b.file /= "")
        files     == [i \in DOMAIN withFile |-> withFile[i].file]
    IN Some([id |-> composer.composerId,
             tool |-> "cursor",
             startedAt |-> earliest,
             endedAt |-> latest,
             durationMs |-> duration,
             messageCount |-> Len(bubbles),
             userMessageCount |-> Len(userBubbles),
             assistantMessageCount |-> Len(aiBubbles),
             tokens |-> tokens,
             costUsd |-> IF tokens.total > 0 /\ Len(models) > 0
                         THEN estimateCost(models[1], tokens) ELSE 0,
             models |-> models,
             filesTouched |-> UniqueInOrder(files),
             conversationDigest |->
                 [i \in DOMAIN spoken |->
                     <<IF spoken[i].type = Some(1) THEN "User" ELSE "Assistant", spoken[i].text>>],
             toolCallSummaries |->
                 UniqueInOrder([i \in DOMAIN files |-> <<"edit", files[i]>>])])

\* CursorParser.getSessions over the composerData rows of the table
cursorGetSessions(rows, d) ==
    FlatSeq([i \in DOMAIN rows |->
        LET composer  == rows[i]
            createdMs == OrElse(composer.createdAt, 0)
            updatedMs == OrElse(composer.lastUpdatedAt, createdMs)
            dayBubbles == loadDayBubbles(composer, dayStartMs(d), dayEndMs(d))
        IN IF composer.composerId = "" THEN <<>>
           ELSE IF ~overlapsDay(Some(createdMs), Some(updatedMs), dayStartMs(d), dayEndMs(d))
           THEN <<>>
           ELSE IF Len(dayBubbles) = 0 THEN <<>>
           ELSE cursorBuildSession(composer, dayBubbles, dayStartMs(d), dayEndMs(d))])

----------------------------------------------------------------------------
(* OpenCode parser (directory-tree source: project / session / message) *)

\* the mutant of messageToTokens used for C4: the cache counters are left
\* out of the total
messageToTokensNoCache(msg) ==
    IF msg.tokens = None THEN emptyTokenUsage
    ELSE LET t == Val(msg.tokens)
         IN [input |-> t.input, output |-> t.output, reasoning |-> t.reasoning,
             cacheRead |-> t.cacheRead, cacheWrite |-> t.cacheWrite,
             total |-> t.input + t.output + t.reasoning]

messageToTokens(msg) ==
    IF msg.tokens = None THEN emptyTokenUsage
    ELSE LET t == Val(msg.tokens)
         IN [input |-> t.input, output |-> t.output, reasoning |-> t.reasoning,
             cacheRead |-> t.cacheRead, cacheWrite |-> t.cacheWrite,
             total |-> t.input + t.output + t.reasoning + t.cacheRead + t.cacheWrite]

\* the mutant of openCodeDurationMs used for C17: the clamped span of a
\* message is added whole
openCodeDurationMsUncapped(dayMessages, startMs, endMs) ==
    SumSeq([i \in DOMAIN dayMessages |->
        LET start == Max(startMs, dayMessages[i].created)
            end   == IF Truthy(dayMessages[i].completed)
                     THEN Min(endMs, Val(dayMessages[i].completed)) ELSE start
        IN IF end > start THEN end - start ELSE 0])

\* the per-message loop computing durationMs
openCodeDurationMs(dayMessages, startMs, endMs) ==
    SumSeq([i \in DOMAIN dayMessages |->
        LET start == Max(startMs, dayMessages[i].created)
            end   == IF Truthy(dayMessages[i].completed)
                     THEN Min(endMs, Val(dayMessages[i].completed)) ELSE start
        IN IF end > start THEN Min(end - start, MAX_MSG_DURATION_MS) ELSE 0])

\* the toolCallSummaries of extractSessionContent: the tool parts of the
\* messages sorted by creation time, one entry each
extractSessionContent(messages) ==
    LET sorted   == SortAscBy(LAMBDA m : m.created, messages)
        withTool == SelectSeq(sorted, LAMBDA m : m.toolPart /= "")
    IN [i \in DOMAIN withTool |-> withTool[i].toolPart]

\* one top-level session of a project, with the messages of its sub-agents
openCodeSession(store, ocSession, startMs, endMs) ==
    LET ocSessions    == store.sessions
        children      == SelectSeq(ocSessions, LAMBDA c : c.parentID = ocSession.id)
        allSessionIds == <<ocSession.id>> \o [i \in DOMAIN children |-> children[i].id]
        messages      == FlatSeq([k \in DOMAIN allSessionIds |->
                            SelectSeq(store.messages, LAMBDA m : m.sessionID = allSessionIds[k])])
        dayMessages   == SelectSeq(messages, LAMBDA m : m.created >= startMs /\ m.created <= endMs)
    IN
    IF Len(dayMessages) = 0 THEN <<>>
    ELSE
    LET userMessages      == SelectSeq(dayMessages, LAMBDA m : m.role = "user")
        assistantMessages == SelectSeq(dayMessages, LAMBDA m : m.role = "assistant")
        named             == SelectSeq(assistantMessages, LAMBDA m : m.modelID /= <<>>)
        priced            == SelectSeq(assistantMessages,
                                       LAMBDA m : m.modelID /= <<>> /\ m.tokens /= None)
        earliestTs        == MinOfSet({dayMessages[i].created : i \in DOMAIN dayMessages})
        latestTs          == MaxOfSet({OrElse(dayMessages[i].completed, dayMessages[i].created) :
                                          i \in DOMAIN dayMessages})
        earliest          == Max(startMs, earliestTs)
    IN << [id |-> ocSession.id,
           tool |-> "opencode",
           startedAt |-> earliest,
           endedAt |-> Min(endMs, latestTs),
           durationMs |-> openCodeDurationMs(dayMessages, startMs, endMs),
           messageCount |-> Len(dayMessages),
           userMessageCount |-> Len(userMessages),
           assistantMessageCount |-> Len(assistantMessages),
           tokens |-> sumTokens([i \in DOMAIN dayMessages |-> messageToTokens(dayMessages[i])]),
           costUsd |-> SumSeq([i \in DOMAIN priced |->
                                  estimateCost(priced[i].modelID, messageToTokens(priced[i]))]),
           models |-> UniqueInOrder([i \in DOMAIN named |-> named[i].modelID]),
           toolCallSummaries |-> extractSessionContent(dayMessages)] >>

\* OpenCodeParser.getSessions for the sessions of one project
openCodeGetSessions(store, d) ==
    IF store.worktree = "/" THEN <<>>
    ELSE FlatSeq([i \in DOMAIN store.sessions |->
            LET ocSession == store.sessions[i]
            IN IF ~overlapsDay(Some(ocSession.created), Some(ocSession.updated),
                               dayStartMs(d), dayEndMs(d))
               THEN <<>>
               ELSE IF ocSession.parentID /= "" THEN <<>>
               ELSE openCodeSession(store, ocSession, dayStartMs(d), dayEndMs(d))])


----------------------------------------------------------------------------
(* Specification Spec: the four parsers' getSessions on bounded stores *)

\* the longest list of records (log lines, rows, bubbles, messages) in a store
MaxRecords == 3

\* the day the command is run for
TargetDay == 1

Gpt4o == <<"gpt", "4o">>
Sonnet4 == <<"claude", "sonnet", "4", "20250514">>

CodexEntry(type, sub, ts, role, text, name, counters, model) ==
    [type |-> type, sub |-> sub, ts |-> ts, role |-> role, text |-> text,
     name |-> name, counters |-> counters, model |-> model]

CodexCounters(input, cachedInput, output, reasoning) ==
    Some([input |-> input, cachedInput |-> cachedInput, output |-> output,
          reasoning |-> reasoning])

CodexLines(d) == {
    CodexEntry("event_msg", "user_message", Some(dayStartMs(d)), "", "hi", "", None, <<>>),
    CodexEntry("event_msg", "user_message", Some(dayStartMs(d) - 1), "", "hi", "", None, <<>>),
    CodexEntry("event_msg", "user_message", Some(dayStartMs(d) + 1000), "", "", "", None, <<>>),
    CodexEntry("event_msg", "agent_message", Some(dayStartMs(d) + 60000), "", "ok", "", None, <<>>),
    CodexEntry("event_msg", "agent_message", Some(dayEndMs(d) + 1), "", "ok", "", None, <<>>),
    CodexEntry("event_msg", "token_count", Some(dayStartMs(d) - 1), "", "", "",
               CodexCounters(10, 4, 2, 1), <<>>),
    CodexEntry("event_msg", "token_count", Some(dayEndMs(d)), "", "", "",
               CodexCounters(30, 20, 6, 4), <<>>),
    CodexEntry("response_item", "function_call", Some(dayStartMs(d) + 1000000), "", "",
               "shell", None, <<>>),
    CodexEntry("response_item", "message", Some(dayEndMs(d)), "assistant", "ok", "", None, <<>>),
    CodexEntry("message", "", None, "user", "hi", "", None, <<>>),
    CodexEntry("function_call", "", None, "", "", "shell", None, <<>>),
    CodexEntry("turn_context", "", Some(dayStartMs(d)), "", "", "", None, Gpt4o) }

LegacyItems == {
    CodexEntry("message", "", None, "user", "hi", "", None, <<>>),
    CodexEntry("message", "", None, "assistant", "ok", "", None, <<>>),
    CodexEntry("message", "", None, "system", "rules", "", None, <<>>),
    CodexEntry("function_call", "", None, "", "", "shell", None, <<>>) }

LegacyTimes(d) ==
    {None, Some(dayStartMs(d) - 1), Some(dayStartMs(d)), Some(dayEndMs(d)), Some(dayEndMs(d) + 1)}

\* the Codex sessions directory: one session file
CodexStores(d) ==
    {<< [format |-> "jsonl", sessionTs |-> None, entries |-> lines] >> :
        lines \in SeqsUpTo(CodexLines(d), MaxRecords)}
    \cup
    {<< [format |-> "json", sessionTs |-> ts, entries |-> items] >> :
        ts \in LegacyTimes(d), items \in SeqsUpTo(LegacyItems, MaxRecords)}


ClaudeUsage(input, output, cacheRead, cacheWrite) ==
    Some([input |-> input, output |-> output, cacheRead |-> cacheRead,
          cacheWrite |-> cacheWrite])

\* toolUse: the summary of the line's tool_use block ("" for none)
ClaudeLine(type, ts, id, model, usage, text, toolUse) ==
    [type |-> type, ts |-> ts, id |-> id, model |-> model, usage |-> usage, text |-> text,
     toolUse |-> toolUse]

ClaudeLines(d) == {
    ClaudeLine("user", Some(dayStartMs(d)), "", <<>>, None, "ask", ""),
    ClaudeLine("user", Some(dayStartMs(d) - 1), "", <<>>, None, "ask", ""),
    ClaudeLine("user", None, "", <<>>, None, "ask", ""),
    ClaudeLine("system", Some(dayStartMs(d)), "", <<>>, None, "", ""),
    ClaudeLine("assistant", Some(dayStartMs(d) + 60000), "msg_a", Sonnet4, ClaudeUsage(10, 5, 2, 1), "draft", "Read /repo/a.ts"),
    ClaudeLine("assistant", Some(dayStartMs(d) + 61000), "msg_a", Sonnet4, ClaudeUsage(10, 9, 2, 1), "final", "Read /repo/a.ts"),
    ClaudeLine("assistant", Some(dayEndMs(d)), "msg_b", <<>>, None, "", "Read /repo/a.ts"),
    ClaudeLine("assistant", Some(dayEndMs(d) + 1), "msg_c", Sonnet4, ClaudeUsage(7, 7, 0, 0), "late", "bash: ls") }

\* id: the id of the message JSON held in the row
ClaudeRow(timestamp, cost_usd, duration_ms, model, usage, id) ==
    [timestamp |-> timestamp, cost_usd |-> cost_usd, duration_ms |-> duration_ms,
     model |-> model, usage |-> usage, id |-> id]

\* the relational store: absent, unreadable, empty, or holding the rows of
\* the session
ClaudeDbs(d) == {
    None,
    Some([broken |-> TRUE, assistantRows |-> <<>>, userRows |-> <<>>]),
    Some([broken |-> FALSE, assistantRows |-> <<>>, userRows |-> <<>>]),
    Some([broken |-> FALSE,
          assistantRows |-> << ClaudeRow(dayEndMs(d) + 1, Some(3), Some(1000), Sonnet4,
                                         ClaudeUsage(1, 1, 0, 0), "msg_c") >>,
          userRows |-> << ClaudeRow(dayStartMs(d) - 1, None, None, <<>>, None, "") >>]),
    Some([broken |-> FALSE,
          assistantRows |-> << ClaudeRow(dayStartMs(d) + 60000, None, Some(1000000), Sonnet4,
                                         ClaudeUsage(10, 5, 2, 1), "msg_a"),
                               ClaudeRow(dayStartMs(d) + 1000, Some(3), None, <<>>, None, "msg_b"),
                               ClaudeRow(dayEndMs(d) + 1, None, Some(1000), Sonnet4,
                                         ClaudeUsage(7, 7, 0, 0), "msg_c") >>,
          userRows |-> << ClaudeRow(dayStartMs(d), None, None, <<>>, None, "") >>]),
    \* two rows holding streamed chunks of one message
    Some([broken |-> FALSE,
          assistantRows |-> << ClaudeRow(dayStartMs(d) + 60000, None, Some(1000), Sonnet4,
                                         ClaudeUsage(10, 5, 2, 1), "msg_a"),
                               ClaudeRow(dayStartMs(d) + 61000, None, Some(1000), Sonnet4,
                                         ClaudeUsage(10, 9, 2, 1), "msg_a") >>,
          userRows |-> <<>>]),
    \* a row whose stored duration is negative
    Some([broken |-> FALSE,
          assistantRows |-> << ClaudeRow(dayStartMs(d) + 60000, None, Some(-5000), Sonnet4,
                                         ClaudeUsage(10, 5, 2, 1), "msg_a") >>,
          userRows |-> << ClaudeRow(dayStartMs(d), None, None, <<>>, None, "") >>]) }

ClaudeEntry(created, modified, isSidechain, fileExists, lines) ==
    [sessionId |-> "claude-session", created |-> created, modified |-> modified,
     isSidechain |-> isSidechain, fileExists |-> fileExists, lines |-> lines]

\* the entries of the sessions index
ClaudeEntries(d) ==
    {ClaudeEntry(Some(dayStartMs(d)), Some(dayEndMs(d)), FALSE, TRUE, lines) :
        lines \in SeqsUpTo(ClaudeLines(d), MaxRecords)}
    \cup
    {ClaudeEntry(Some(dayStartMs(d) - 5), Some(dayEndMs(d) + 5), FALSE, TRUE, lines) :
        lines \in SeqsUpTo(ClaudeLines(d), MaxRecords - 1)}
    \cup
    { ClaudeEntry(Some(dayStartMs(d) - 5), Some(dayStartMs(d) - 1), FALSE, TRUE,
                  << ClaudeLine("user", Some(dayStartMs(d)), "", <<>>, None, "ask", "") >>),
      ClaudeEntry(None, Some(dayEndMs(d)), FALSE, TRUE,
                  << ClaudeLine("user", Some(dayStartMs(d)), "", <<>>, None, "ask", "") >>),
      ClaudeEntry(Some(dayStartMs(d)), Some(dayEndMs(d)), TRUE, TRUE,
                  << ClaudeLine("user", Some(dayStartMs(d)), "", <<>>, None, "ask", "") >>),
      ClaudeEntry(Some(dayStartMs(d)), Some(dayEndMs(d)), FALSE, FALSE, <<>>) }

ClaudeStores(d) ==
    {[db |-> db, entries |-> <<entry>>] : db \in ClaudeDbs(d), entry \in ClaudeEntries(d)}

\* text: the bubble's text; file: the path of its code block ("" for none)
CursorBubble(type, clientRpcSendTime, clientEndTime, createdAt, tokenCount, modelName, text, file) ==
    [type |-> type, clientRpcSendTime |-> clientRpcSendTime, clientEndTime |-> clientEndTime,
     createdAt |-> createdAt, tokenCount |-> tokenCount, modelName |-> modelName,
     text |-> text, file |-> file]

CursorTokens(inputTokens, outputTokens) ==
    Some([inputTokens |-> inputTokens, outputTokens |-> outputTokens])

CursorBubbles(d) == {
    CursorBubble(Some(1), None, None, None, None, <<>>, "ask", ""),
    CursorBubble(Some(2), None, None, None, CursorTokens(10, 5), Gpt4o, "done", "/repo/a.ts"),
    CursorBubble(Some(1), Some(dayStartMs(d) + 60000), None, None, None, <<>>, "ask", ""),
    CursorBubble(Some(2), Some(dayStartMs(d) + 60000), Some(dayStartMs(d) + 1060000), None,
                 CursorTokens(7, 3), <<>>, "done", "/repo/a.ts"),
    CursorBubble(Some(2), None, None, Some(dayEndMs(d) + 1), CursorTokens(1, 1), Gpt4o, "late", "/repo/late.ts"),
    CursorBubble(Some(3), None, None, Some(dayStartMs(d)), None, <<>>, "step", "/repo/b.ts"),
    CursorBubble(None, None, None, None, None, <<>>, "note", "/repo/untyped.ts") }

\* createdAt / lastUpdatedAt of a composer
CursorComposerTimes(d) == {
    <<Some(dayStartMs(d) + 1000), Some(dayEndMs(d))>>,
    <<Some(dayStartMs(d) + 60000), Some(dayStartMs(d) + 1000)>>,
    <<Some(dayStartMs(d) - 5), Some(dayStartMs(d) + 1000)>>,
    <<None, Some(dayStartMs(d) + 1000)>>,
    <<None, None>> }

\* a composerData row: one composer, its bubbles stored inline
\* (conversation) or as separate rows listed by the headers
CursorComposer(times, inline, bubbles) ==
    [composerId |-> "composer-1", createdAt |-> times[1], lastUpdatedAt |-> times[2],
     modelName |-> Sonnet4,
     conversation |-> IF inline THEN Some(bubbles) ELSE None,
     kvBubbles |-> IF inline THEN <<>> ELSE bubbles]

\* the composerData rows of the table
CursorStores(d) ==
    {<< CursorComposer(times, TRUE, bubbles) >> :
        times \in CursorComposerTimes(d),
        bubbles \in SeqsUpTo(CursorBubbles(d), MaxRecords)}
    \cup
    {<< CursorComposer(times, FALSE, bubbles) >> :
        times \in CursorComposerTimes(d),
        bubbles \in SeqsUpTo(CursorBubbles(d), MaxRecords - 1)}

OCTokens(input, output, reasoning, cacheRead, cacheWrite) ==
    Some([input |-> input, output |-> output, reasoning |-> reasoning,
          cacheRead |-> cacheRead, cacheWrite |-> cacheWrite])

\* toolPart: the summary of the message's tool part ("" for none)
OCMessage(sessionID, role, created, completed, modelID, tokens, toolPart) ==
    [sessionID |-> sessionID, role |-> role, created |-> created, completed |-> completed,
     modelID |-> modelID, tokens |-> tokens, toolPart |-> toolPart]

OCMessages(d) == {
    OCMessage("ses_1", "user", dayStartMs(d), None, <<>>, None, ""),
    OCMessage("ses_1", "user", dayStartMs(d) - 1, None, <<>>, None, ""),
    OCMessage("ses_1", "assistant", dayStartMs(d) + 1000, Some(dayStartMs(d) + 1001000),
              Sonnet4, OCTokens(10, 5, 3, 2, 1), "read /repo/a.ts"),
    OCMessage("ses_1", "assistant", dayStartMs(d) + 1000, Some(dayStartMs(d) - 1),
              Sonnet4, None, "read /repo/a.ts"),
    OCMessage("ses_1", "assistant", dayStartMs(d) + 2000, Some(0), <<>>, OCTokens(1, 1, 0, 0, 0), ""),
    OCMessage("ses_1", "assistant", dayEndMs(d), Some(dayEndMs(d) + 5),
              Gpt4o, OCTokens(4, 4, 0, 0, 0), "read /repo/a.ts"),
    OCMessage("ses_2", "assistant", dayStartMs(d) + 60000, Some(dayStartMs(d) + 61000),
              Gpt4o, OCTokens(6, 2, 1, 0, 0), "bash: ls"),
    OCMessage("ses_1", "system", dayStartMs(d) + 500, None, <<>>, None, "") }

OCSession(id, parentID, created, updated) ==
    [id |-> id, parentID |-> parentID, created |-> created, updated |-> updated]

\* the session files of the project
OCSessionLayouts(d) == {
    << OCSession("ses_1", "", dayStartMs(d), dayEndMs(d)) >>,
    << OCSession("ses_1", "", dayStartMs(d) - 5, dayStartMs(d) - 1) >>,
    << OCSession("ses_1", "", dayStartMs(d) - 5, dayEndMs(d) + 5),
       OCSession("ses_2", "ses_1", dayStartMs(d), dayEndMs(d)) >>,
    \* a sub-agent active in the day under a parent last updated before it
    << OCSession("ses_1", "", dayStartMs(d) - 5, dayStartMs(d) - 1),
       OCSession("ses_2", "ses_1", dayStartMs(d), dayEndMs(d)) >>,
    \* a sub-agent of a sub-agent
    << OCSession("ses_1", "", dayStartMs(d), dayEndMs(d)),
       OCSession("ses_3", "ses_1", dayStartMs(d), dayEndMs(d)),
       OCSession("ses_2", "ses_3", dayStartMs(d), dayEndMs(d)) >> }

OpenCodeStores(d) ==
    {[worktree |-> "/repo/oc", sessions |-> sessions, messages |-> messages] :
        sessions \in OCSessionLayouts(d),
        messages \in SeqsUpTo(OCMessages(d), MaxRecords)}
    \cup
    {[worktree |-> "/", sessions |-> sessions, messages |-> messages] :
        sessions \in OCSessionLayouts(d),
        messages \in SeqsUpTo(OCMessages(d), MaxRecords - 1)}

\* exactly one of the four stores exists on the machine
Stores(d) ==
    {[EmptyStorage EXCEPT !.codex = Some(c)] : c \in CodexStores(d)}
    \cup {[EmptyStorage EXCEPT !.claude = Some(c)] : c \in ClaudeStores(d)}
    \cup {[EmptyStorage EXCEPT !.cursor = Some(c)] : c \in CursorStores(d)}
    \cup {[EmptyStorage EXCEPT !.opencode = Some(c)] : c \in OpenCodeStores(d)}

Init ==
    /\ date = TargetDay
    /\ storage \in Stores(TargetDay)
    /\ returned = NothingReturned
    /\ allSessions = <<>>
    /\ gitActivities = <<>>
    /\ recap = None
    /\ call = None
    /\ ret = None

\* if (await parser.isAvailable()) allSessions.push(...await parser.getSessions(date))
Collect(p, sessions) ==
    /\ returned[p] = None
    /\ returned' = [returned EXCEPT ![p] = Some(sessions)]
    /\ allSessions' = allSessions \o sessions
    /\ UNCHANGED <<date, storage, gitActivities, recap, call, ret>>

CodexGetSessions ==
    /\ storage.codex /= None
    /\ Collect("codex", codexGetSessions(Val(storage.codex), date))

ClaudeCodeGetSessions ==
    /\ storage.claude /= None
    /\ Collect("claude-code", claudeGetSessions(Val(storage.claude), date))

CursorGetSessions ==
    /\ storage.cursor /= None
    /\ Collect("cursor", cursorGetSessions(Val(storage.cursor), date))

OpenCodeGetSessions ==
    /\ storage.opencode /= None
    /\ Collect("opencode", openCodeGetSessions(Val(storage.opencode), date))

Next ==
    \/ CodexGetSessions
    \/ ClaudeCodeGetSessions
    \/ CursorGetSessions
    \/ OpenCodeGetSessions

Spec == Init /\ [][Next]_vars

\* every session some parser has returned
ReturnedSessions ==
    UNION {Range(Val(returned[p])) : p \in {q \in Parsers : returned[q] /= None}}


\* C1: every session returned by any parser has its start and its end inside
\* the day window: dayStart <= startedAt <= dayEnd and
\* dayStart <= endedAt <= dayEnd, whatever the store holds.
C1_SessionsWithinDay ==
    \A s \in ReturnedSessions : InDay(s.startedAt, date) /\ InDay(s.endedAt, date)

\* C2: every session returned by any parser starts no later than it ends.
C2_StartNotAfterEnd ==
    \A s \in ReturnedSessions : s.startedAt <= s.endedAt

\* C3: every session returned by any parser counts at least one message of
\* the day window; a conversation without one yields no record.
C3_AtLeastOneMessage ==
    \A s \in ReturnedSessions : s.messageCount >= 1

TotalIsSumOfParts(t) ==
    t.total = t.input + t.output + t.reasoning + t.cacheRead + t.cacheWrite

\* C4: the token usage of every returned session, and the sumTokens of the
\* usages of the returned sessions, has total equal to
\* input + output + reasoning + cacheRead + cacheWrite.
C4_TotalIsSumOfParts ==
    /\ \A s \in ReturnedSessions : TotalIsSumOfParts(s.tokens)
    /\ TotalIsSumOfParts(sumTokens([i \in DOMAIN allSessions |-> allSessions[i].tokens]))

\* an OpenCode session summing a parent message with cache counters and a
\* sub-agent message
C4_Witness ==
    /\ returned["opencode"] /= None
    /\ Len(allSessions) = 1
    /\ allSessions[1].tool = "opencode"
    /\ allSessions[1].messageCount = 2
    /\ allSessions[1].tokens =
          [input |-> 16, output |-> 7, reasoning |-> 4, cacheRead |-> 2,
           cacheWrite |-> 1, total |-> 30]


----------------------------------------------------------------------------
(* Specification SpecScan: the control flow of one getSessions call over a
   storage root and its records, with the relational-store handle *)

\* the longest list of records (session files, project indexes, rows) scanned
MaxUnits == 2

\* the storage root of a parser: well-formed, missing, or present but
\* corrupt (a path that is not a directory; a database without its table)
ScanRoots(p) ==
    IF p = "cursor" THEN {"ok", "missing", "noTable"}
    ELSE {"ok", "missing", "notDirectory"}

\* the optional relational store of the Claude Code home; the Cursor root
\* is itself the database
ScanDbs(p) ==
    IF p = "claude-code" THEN {"absent", "unopenable", "ok", "queryFails"}
    ELSE {"absent"}

\* one record of the scan: a well-formed one, or one that cannot be read,
\* is not valid JSON, or parses but lacks the fields the parser reads
ScanKinds(p) ==
    CASE p = "codex"       -> {"ok", "unreadable", "invalidJson", "wrongShape"}
      [] p = "claude-code" -> {"ok", "noIndex", "invalidJson", "noEntries", "lineNoMessage"}
      [] p = "cursor"      -> {"ok", "invalidJson", "noComposerId", "nullValue"}
      [] p = "opencode"    -> {"ok", "invalidJson", "noTime"}

\* getSessions wraps its scan in try { ... } finally { close }
hasTryFinally(p) == p \in {"claude-code", "cursor"}

\* whether entering getSessions opens a store handle
opensHandle(p, root, db) ==
    \/ p = "cursor" /\ root /= "missing"                       \* new Database(...)
    \/ p = "claude-code" /\ root /= "missing" /\ db \in {"ok", "queryFails"}

\* what happens before the first record is looked at
enterOutcome(p, root) ==
    CASE root = "missing" -> "return"        \* existsSync false / open throws and is caught
      [] root = "ok"      -> "scan"
      [] OTHER            -> "throw"         \* readdirSync / prepare throws, nothing catches

\* what one record does to the scan
recordOutcome(p, kind) ==
    CASE kind = "ok" -> "push"
      [] p = "claude-code" /\ kind \in {"noEntries", "lineNoMessage"} -> "throw"
      [] p = "cursor" /\ kind = "nullValue" -> "throw"
      [] p = "opencode" /\ kind = "noTime" -> "throw"
      [] OTHER -> "skip"

\* whether looking at the record queries the store handle
usesHandle(p, kind, handle) ==
    /\ handle.opens > 0
    /\ \/ p = "claude-code" /\ kind \in {"ok", "lineNoMessage"}   \* buildSessionFromDb
       \/ p = "cursor" /\ kind = "ok"                             \* loadBubbles

\* where an exception goes: into the finally block, or straight to the caller
afterThrow(p) == IF hasTryFinally(p) THEN "finally" ELSE "return"

\* the mutant of finallyClose used for C14: the handle is closed on the
\* normal path only
finallyCloseUnlessThrown(c) ==
    IF c.handle.opens > c.handle.closes /\ ~c.threw
    THEN [c.handle EXCEPT !.closes = @ + 1] ELSE c.handle

\* finally { db?.close() } / finally { db.close() }
finallyClose(c) ==
    IF c.handle.opens > c.handle.closes
    THEN [c.handle EXCEPT !.closes = @ + 1] ELSE c.handle

NoHandle == [opens |-> 0, closes |-> 0, usedClosed |-> FALSE]

ScanCalls ==
    {[fn |-> "getSessions", parser |-> p, root |-> root, db |-> db, units |-> units,
      pc |-> "start", i |-> 1, handle |-> NoHandle, sessions |-> <<>>, threw |-> FALSE] :
        p \in Parsers, root \in {"ok", "missing", "notDirectory", "noTable"},
        db \in {"absent", "unopenable", "ok", "queryFails"},
        units \in SeqsUpTo({"ok", "unreadable", "invalidJson", "wrongShape", "noIndex",
                            "noEntries", "lineNoMessage", "noComposerId", "nullValue",
                            "noTime"}, MaxUnits)}

InitScan ==
    /\ date = TargetDay
    /\ storage = EmptyStorage
    /\ returned = NothingReturned
    /\ allSessions = <<>>
    /\ gitActivities = <<>>
    /\ recap = None
    /\ call \in {c \in ScanCalls :
                    /\ c.root \in ScanRoots(c.parser)
                    /\ c.db \in ScanDbs(c.parser)
                    /\ \A k \in DOMAIN c.units : c.units[k] \in ScanKinds(c.parser)}
    /\ ret = None

\* the part of getSessions before the loop over the records
ScanEnter ==
    /\ call.pc = "start"
    /\ LET out    == enterOutcome(call.parser, call.root)
           handle == IF opensHandle(call.parser, call.root, call.db)
                     THEN [call.handle EXCEPT !.opens = @ + 1] ELSE call.handle
       IN call' = [call EXCEPT !.handle = handle,
                               !.threw = (out = "throw"),
                               !.pc = CASE out = "scan"  -> "scan"
                                        [] out = "throw" -> afterThrow(call.parser)
                                        [] OTHER         -> "return"]
    /\ UNCHANGED <<date, storage, returned, allSessions, gitActivities, recap, ret>>

\* one iteration of the loop over the records
ScanRecord ==
    /\ call.pc = "scan"
    /\ call.i <= Len(call.units)
    /\ LET kind   == call.units[call.i]
           out    == recordOutcome(call.parser, kind)
           handle == IF usesHandle(call.parser, kind, call.handle) /\ call.handle.closes > 0
                     THEN [call.handle EXCEPT !.usedClosed = TRUE] ELSE call.handle
       IN call' = [call EXCEPT !.handle = handle,
                               !.i = @ + 1,
                               !.sessions = IF out = "push" THEN Append(@, call.i) ELSE @,
                               !.threw = (out = "throw"),
                               !.pc = IF out = "throw" THEN afterThrow(call.parser) ELSE "scan"]
    /\ UNCHANGED <<date, storage, returned, allSessions, gitActivities, recap, ret>>

\* the loop ends
ScanLoopEnd ==
    /\ call.pc = "scan"
    /\ call.i > Len(call.units)
    /\ call' = [call EXCEPT !.pc = IF hasTryFinally(call.parser) THEN "finally" ELSE "return"]
    /\ UNCHANGED <<date, storage, returned, allSessions, gitActivities, recap, ret>>

\* the finally block
ScanFinally ==
    /\ call.pc = "finally"
    /\ call' = [call EXCEPT !.handle = finallyClose(call), !.pc = "return"]
    /\ UNCHANGED <<date, storage, returned, allSessions, gitActivities, recap, ret>>

\* getSessions returns its sessions, or the exception reaches the caller
ScanReturn ==
    /\ call.pc = "return"
    /\ call' = [call EXCEPT !.pc = "done"]
    /\ ret' = Some([threw |-> call.threw,
                    sessions |-> IF call.threw THEN <<>> ELSE call.sessions])
    /\ UNCHANGED <<date, storage, returned, allSessions, gitActivities, recap>>

NextScan ==
    \/ ScanEnter
    \/ ScanRecord
    \/ ScanLoopEnd
    \/ ScanFinally
    \/ ScanReturn

SpecScan == InitScan /\ [][NextScan]_vars

\* the sessions of the well-formed records, in scan order
DerivableSessions ==
    SelectSeq([k \in DOMAIN call.units |-> k], LAMBDA k : call.units[k] = "ok")

\* C12: with a sound storage root, corrupt or malformed records are skipped:
\* getSessions does not throw and returns the sessions of all other records.
C12_CorruptRecordsSkipped ==
    (ret /= None /\ call.fn = "getSessions" /\ call.root = "ok") =>
        /\ ~Val(ret).threw
        /\ Val(ret).sessions = DerivableSessions

\* C13: with a missing or corrupt storage root getSessions returns an empty
\* list and no exception reaches the caller.
C13_BadRootYieldsEmpty ==
    (ret /= None /\ call.fn = "getSessions" /\ call.root /= "ok") =>
        /\ ~Val(ret).threw
        /\ Val(ret).sessions = <<>>

\* C14: a store handle is opened at most once per getSessions call, is
\* never queried after it is closed, is never closed more often than opened,
\* and is closed exactly once by the time getSessions returns or throws.
C14_HandleClosedOnce ==
    call.fn = "getSessions" =>
        /\ call.handle.opens <= 1
        /\ call.handle.closes <= call.handle.opens
        /\ ~call.handle.usedClosed
        /\ call.pc \in {"return", "done"} => call.handle.closes = call.handle.opens

\* a Claude Code scan that queried its store for one session, then met an
\* index without entries, threw, and closed the handle once
C14_Witness ==
    /\ ret /= None
    /\ call.fn = "getSessions"
    /\ call.parser = "claude-code"
    /\ call.db = "ok"
    /\ call.units = <<"ok", "noEntries">>
    /\ Val(ret).threw
    /\ call.handle = [opens |-> 1, closes |-> 1, usedClosed |-> FALSE]


\* the OpenCode session with the given id
OCSessionById(store, id) ==
    store.sessions[CHOOSE k \in DOMAIN store.sessions : store.sessions[k].id = id]

RECURSIVE OCRootOf(_, _)
\* the top-level session a session descends from
OCRootOf(store, id) ==
    IF OCSessionById(store, id).parentID = "" THEN id
    ELSE OCRootOf(store, OCSessionById(store, id).parentID)

\* the in-window messages stored under the sessions descending from a root
OCDayMessagesUnder(store, rootId) ==
    {k \in DOMAIN store.messages :
        /\ \E j \in DOMAIN store.sessions : store.sessions[j].id = store.messages[k].sessionID
        /\ OCRootOf(store, store.messages[k].sessionID) = rootId
        /\ InDay(store.messages[k].created, date)}

RECURSIVE OCTokenTotal(_, _)
OCTokenTotal(store, K) ==
    IF K = {} THEN 0
    ELSE LET k == CHOOSE x \in K : TRUE
         IN messageToTokens(store.messages[k]).total + OCTokenTotal(store, K \ {k})

\* C15: no OpenCode session with a parent is returned, and the in-window
\* messages of every sub-agent session, however deep and whatever its
\* parent's own created / updated range, are counted in the message count
\* and token total of the returned top-level session it descends from.
C15_SubAgentsAttributed ==
    (returned["opencode"] /= None /\ Val(storage.opencode).worktree /= "/") =>
        LET store == Val(storage.opencode)
            out   == Range(Val(returned["opencode"]))
        IN \A j \in DOMAIN store.sessions :
              store.sessions[j].parentID /= "" =>
                 /\ \A r \in out : r.id /= store.sessions[j].id
                 /\ (\E k \in DOMAIN store.messages :
                        /\ store.messages[k].sessionID = store.sessions[j].id
                        /\ InDay(store.messages[k].created, date))
                    => \E r \in out :
                          /\ r.id = OCRootOf(store, store.sessions[j].id)
                          /\ r.messageCount =
                                Cardinality(OCDayMessagesUnder(store, r.id))
                          /\ r.tokens.total =
                                OCTokenTotal(store, OCDayMessagesUnder(store, r.id))


----------------------------------------------------------------------------
(* Summarization (summarizeRecap and its LLM collaborator) *)

LlmOk(text) == [ok |-> TRUE, text |-> text, error |-> "", retriable |-> FALSE]
LlmFailure(error, retriable) == [ok |-> FALSE, text |-> "", error |-> error, retriable |-> retriable]

describeHttpError(status) ==
    CASE status \in {401, 403} -> LlmFailure("invalid API key", FALSE)
      [] status = 429          -> LlmFailure("rate limited", TRUE)
      [] status = 402          -> LlmFailure("insufficient credits", FALSE)
      [] status = 400          -> LlmFailure("bad request", FALSE)
      [] status >= 500         -> LlmFailure("server error", TRUE)
      [] OTHER                 -> LlmFailure("HTTP error", FALSE)

describeException(err) ==
    CASE err = "AbortError" -> LlmFailure("request timed out", TRUE)
      [] err = "network"    -> LlmFailure("network error", TRUE)
      [] OTHER              -> LlmFailure("exception", FALSE)

\* what one request to the provider comes back with
LlmResponses ==
    {[kind |-> "text", status |-> 200, err |-> ""],
     [kind |-> "empty", status |-> 200, err |-> ""]}
    \cup {[kind |-> "http", status |-> st, err |-> ""] : st \in {401, 429, 402, 400, 500, 404}}
    \cup {[kind |-> "exception", status |-> 0, err |-> e] : e \in {"AbortError", "network", "other"}}

\* callLlm: route to the configured provider, every failure caught and
\* returned as a result
callLlm(hasKey, response) ==
    IF ~hasKey THEN LlmFailure("no API key configured", FALSE)
    ELSE CASE response.kind = "http"      -> describeHttpError(response.status)
           [] response.kind = "exception" -> describeException(response.err)
           [] response.kind = "empty"     -> LlmFailure("empty output", FALSE)
           [] OTHER                       -> LlmOk("summary")

\* the mutant of summarizeProject used for C16: the result text is handed
\* on whether or not the call succeeded
summarizeProjectAlwaysText(result) == Some(result.text)

\* summarizeProject / generateStandup: the text, or null after a warning
summarizeProject(result) == IF ~result.ok THEN None ELSE Some(result.text)

\* the mutant of skipsStandup used for C25: one failed summary is enough
skipsStandupOnAnyFailure(hasFailure, projects) == hasFailure

\* hasFailure && recap.projects.every((p) => p.aiSummary === null)
skipsStandup(hasFailure, projects) ==
    hasFailure /\ \A i \in DOMAIN projects : projects[i].aiSummary = None

----------------------------------------------------------------------------
(* Specification SpecSummarize: summarizeRecap on a merged recap, the
   provider answering each request in any of its ways *)

MaxSummarySessions == 2

SummarySessions ==
    {InputSession(path, [costUsd |-> 5, messageCount |-> 1, tokens |-> 7, durationMs |-> 0,
                         tool |-> "cursor"]) : path \in {"/repo/a", "/repo/b"}}

InitSummarize ==
    /\ date = 0
    /\ storage = EmptyStorage
    /\ returned = NothingReturned
    /\ allSessions \in SeqsUpTo(SummarySessions, MaxSummarySessions)
    /\ gitActivities = <<>>
    /\ recap = Some(buildDayRecap(date, allSessions, gitActivities))
    /\ \E hasKey \in BOOLEAN :
          call = [fn |-> "summarizeRecap", hasKey |-> hasKey, pc |-> "projects", i |-> 1,
                  hasFailure |-> FALSE, results |-> <<>>, standupResult |-> None,
                  standupCalls |-> 0, warnings |-> <<>>]
    /\ ret = None

Warning(about, index) == [about |-> about, index |-> index]

\* one iteration of the loop over recap.projects
SummarizeProject ==
    /\ call.pc = "projects"
    /\ call.i <= Len(Val(recap).projects)
    /\ \E response \in LlmResponses :
          LET result == callLlm(call.hasKey, response)
          IN /\ recap' = Some([Val(recap) EXCEPT
                                  !.projects[call.i].aiSummary = summarizeProject(result)])
             /\ call' = [call EXCEPT
                            !.i = @ + 1,
                            !.hasFailure = @ \/ summarizeProject(result) = None,
                            !.results = Append(@, result),
                            !.warnings = IF result.ok THEN @
                                         ELSE Append(@, Warning("project", call.i))]
    /\ UNCHANGED <<date, storage, returned, allSessions, gitActivities, ret>>

\* every project summary failed: warn and return without a standup call
SkipStandup ==
    /\ call.pc = "projects"
    /\ call.i > Len(Val(recap).projects)
    /\ skipsStandup(call.hasFailure, Val(recap).projects)
    /\ call' = [call EXCEPT !.pc = "done", !.warnings = Append(@, Warning("skip", 0))]
    /\ ret' = recap
    /\ UNCHANGED <<date, storage, returned, allSessions, gitActivities, recap>>

\* generateStandup, then return
GenerateStandup ==
    /\ call.pc = "projects"
    /\ call.i > Len(Val(recap).projects)
    /\ ~skipsStandup(call.hasFailure, Val(recap).projects)
    /\ \E response \in LlmResponses :
          LET result == callLlm(call.hasKey, response)
          IN /\ recap' = Some([Val(recap) EXCEPT !.standupMessage = summarizeProject(result)])
             /\ call' = [call EXCEPT
                            !.pc = "done",
                            !.standupResult = Some(result),
                            !.standupCalls = @ + 1,
                            !.warnings = IF result.ok THEN @
                                         ELSE Append(@, Warning("standup", 0))]
             /\ ret' = recap'
    /\ UNCHANGED <<date, storage, returned, allSessions, gitActivities>>

NextSummarize ==
    \/ SummarizeProject
    \/ SkipStandup
    \/ GenerateStandup

SpecSummarize == InitSummarize /\ [][NextSummarize]_vars

\* C16: a failed project call leaves that project's aiSummary null with a
\* warning, a failed standup call leaves standupMessage null with a warning,
\* the recap is returned all the same, and the LLM is asked exactly once per
\* project reached and at most once for the standup.
C16_SummarizeFailuresAbsorbed ==
    call.fn = "summarizeRecap" =>
        LET ps == Val(recap).projects
        IN /\ Len(call.results) = call.i - 1
           /\ Len(call.results) <= Len(ps)
           /\ call.standupCalls <= 1
           /\ \A i \in DOMAIN call.results :
                 ~call.results[i].ok =>
                    /\ ps[i].aiSummary = None
                    /\ Cardinality({w \in DOMAIN call.warnings :
                                       call.warnings[w] = Warning("project", i)}) = 1
           /\ (call.standupResult /= None /\ ~Val(call.standupResult).ok) =>
                 /\ Val(recap).standupMessage = None
                 /\ \E w \in DOMAIN call.warnings : call.warnings[w] = Warning("standup", 0)
           /\ call.pc = "done" =>
                 /\ ret = recap
                 /\ Len(call.results) = Len(ps)

\* two projects, the first summary rate-limited, the second written, the
\* standup timing out
C16_Witness ==
    /\ call.fn = "summarizeRecap"
    /\ call.pc = "done"
    /\ Len(call.results) = 2
    /\ call.results[1] = LlmFailure("rate limited", TRUE)
    /\ call.results[2].ok
    /\ call.standupResult = Some(LlmFailure("request timed out", TRUE))
    /\ Val(ret).projects[1].aiSummary = None
    /\ Val(ret).projects[2].aiSummary = Some("summary")
    /\ Val(ret).standupMessage = None
    /\ call.warnings = << Warning("project", 1), Warning("standup", 0) >>


----------------------------------------------------------------------------
(* Duration from per-message processing times *)

\* the Claude Code session of the store was built from the relational store
ClaudeStoreBacked ==
    /\ storage.claude /= None
    /\ Val(storage.claude).db /= None
    /\ \E i \in DOMAIN Val(storage.claude).entries :
          buildSessionFromDb(Val(storage.claude).entries[i], dayStartMs(date), dayEndMs(date),
                             Val(Val(storage.claude).db)) /= None

\* C17: a session whose duration is the sum of per-message processing times
\* (OpenCode, Cursor, Claude Code built from the store) has
\* durationMs <= 300000 * messageCount.
C17_DurationCappedPerMessage ==
    \A s \in ReturnedSessions :
        (s.tool \in {"opencode", "cursor"} \/ (s.tool = "claude-code" /\ ClaudeStoreBacked))
            => s.durationMs <= MAX_MSG_DURATION_MS * s.messageCount

\* an OpenCode session of one message whose created -> completed span is
\* over the cap
C17_Witness ==
    /\ returned["opencode"] /= None
    /\ \E s \in ReturnedSessions :
          /\ s.tool = "opencode"
          /\ s.messageCount = 1
          /\ s.durationMs = MAX_MSG_DURATION_MS
    /\ \E i \in DOMAIN Val(storage.opencode).messages :
          LET m == Val(storage.opencode).messages[i]
          IN /\ Truthy(m.completed)
             /\ Val(m.completed) - m.created > MAX_MSG_DURATION_MS


----------------------------------------------------------------------------
(* Claude Code: streamed chunks of one assistant message *)

\* the occurrences that no later occurrence of the same message id follows
LastOccurrences(msgs) ==
    LET tagged == [i \in DOMAIN msgs |-> [i |-> i, m |-> msgs[i]]]
        kept   == SelectSeq(tagged, LAMBDA t :
                      \A j \in DOMAIN msgs : j > t.i => msgs[j].id /= t.m.id)
    IN [k \in DOMAIN kept |-> kept[k].m]

\* the in-window assistant occurrences the session of the entry is built
\* from: the rows of the store, or the lines of the log file
ClaudeOccurrences(entry) ==
    IF ClaudeStoreBacked
    THEN windowedRows(Val(Val(storage.claude).db).assistantRows, dayStartMs(date), dayEndMs(date))
    ELSE parseJsonlFile(entry.lines, "assistant", dayStartMs(date), dayEndMs(date))

\* the in-window assistant lines of the log file, in timestamp order
ClaudeLogOccurrences(entry) ==
    IF ~entry.fileExists THEN <<>>
    ELSE SortAscBy(LAMBDA m : Val(m.ts),
                   parseJsonlFile(entry.lines, "assistant", dayStartMs(date), dayEndMs(date)))

AssistantDigestTexts(digest) ==
    LET parts == SelectSeq(digest, LAMBDA part : part[1] = "Assistant")
    IN [i \in DOMAIN parts |-> parts[i][2]]

C18_CountsEachIdOnce(s, entry) ==
    s.assistantMessageCount = Len(LastOccurrences(ClaudeOccurrences(entry)))

C18_TokensOfLast(s, entry) ==
    LET last == LastOccurrences(ClaudeOccurrences(entry))
    IN /\ s.tokens = claudeTotalTokens([i \in DOMAIN last |-> last[i].usage])
       /\ Range(s.models) = {last[i].model : i \in {j \in DOMAIN last : last[j].model /= <<>>}}

C18_DigestOfLast(s, entry) ==
    LET last  == LastOccurrences(ClaudeLogOccurrences(entry))
        texts == SelectSeq([i \in DOMAIN last |-> last[i].text], LAMBDA t : t /= "")
    IN Range(AssistantDigestTexts(s.conversationDigest)) = Range(texts)

\* C18: on the store path and on the log-file path alike, a message id
\* occurring several times in the window counts once in
\* assistantMessageCount, and the session's token usage, models and digest
\* text are those of its last occurrence.
C18_DedupKeepsLast ==
    \A s \in ReturnedSessions :
        s.tool = "claude-code" =>
            \A i \in DOMAIN Val(storage.claude).entries :
                LET entry == Val(storage.claude).entries[i]
                IN entry.sessionId = s.id =>
                      /\ C18_CountsEachIdOnce(s, entry)
                      /\ C18_TokensOfLast(s, entry)
                      /\ C18_DigestOfLast(s, entry)


----------------------------------------------------------------------------
(* Specification SpecBuild: ClaudeCodeParser.buildSession on one candidate
   session, step by step, recording which builders run and whether the log
   file is read *)

\* the mutant of tryStore used for C19: the store is never consulted
tryStoreNever(entry, startMs, endMs, db) == None

\* if (db) { const dbSession = this.buildSessionFromDb(...); if (dbSession) return dbSession; }
\* db is null when the store file is absent or could not be opened
tryStore(entry, startMs, endMs, db) ==
    IF db /= None THEN buildSessionFromDb(entry, startMs, endMs, Val(db)) ELSE None

\* the entries getSessions hands to buildSession
isCandidate(entry, startMs, endMs) ==
    ~entry.isSidechain /\ overlapsDay(entry.created, entry.modified, startMs, endMs)

BuildEntry == Val(storage.claude).entries[1]

InitBuild ==
    /\ date = TargetDay
    /\ storage \in {st \in Stores(TargetDay) :
                       /\ st.claude /= None
                       /\ isCandidate(Val(st.claude).entries[1],
                                      dayStartMs(TargetDay), dayEndMs(TargetDay))}
    /\ returned = NothingReturned
    /\ allSessions = <<>>
    /\ gitActivities = <<>>
    /\ recap = None
    /\ call = [fn |-> "buildSession", pc |-> "store", calls |-> <<>>]
    /\ ret = None

\* the store branch of buildSession; buildSessionFromDb reads the log file
\* for the digest once it has found messages
BuildFromStore ==
    /\ call.fn = "buildSession"
    /\ call.pc = "store"
    /\ LET db        == Val(storage.claude).db
           dbSession == tryStore(BuildEntry, dayStartMs(date), dayEndMs(date), db)
           dbCalls   == IF db = None THEN <<>>
                        ELSE IF dbSession /= None /\ BuildEntry.fileExists
                        THEN <<"buildSessionFromDb", "parseJsonlFile">>
                        ELSE <<"buildSessionFromDb">>
       IN IF dbSession /= None
          THEN /\ call' = [call EXCEPT !.pc = "done", !.calls = @ \o dbCalls]
               /\ ret' = Some(dbSession)
          ELSE /\ call' = [call EXCEPT !.pc = "fallback", !.calls = @ \o dbCalls]
               /\ ret' = ret
    /\ UNCHANGED <<date, storage, returned, allSessions, gitActivities, recap>>

\* return this.buildSessionFromJsonl(...)
BuildFromLog ==
    /\ call.fn = "buildSession"
    /\ call.pc = "fallback"
    /\ call' = [call EXCEPT
                   !.pc = "done",
                   !.calls = @ \o (IF BuildEntry.fileExists
                                   THEN <<"buildSessionFromJsonl", "parseJsonlFile">>
                                   ELSE <<"buildSessionFromJsonl">>)]
    /\ ret' = Some(buildSessionFromJsonl(BuildEntry, dayStartMs(date), dayEndMs(date)))
    /\ UNCHANGED <<date, storage, returned, allSessions, gitActivities, recap>>

NextBuild ==
    \/ BuildFromStore
    \/ BuildFromLog

SpecBuild == InitBuild /\ [][NextBuild]_vars

\* the store is absent or unopenable, a query throws, or the windowed
\* queries return no row
StoreGivesNothing ==
    LET db == Val(storage.claude).db
    IN \/ db = None
       \/ Val(db).broken
       \/ /\ windowedRows(Val(db).assistantRows, dayStartMs(date), dayEndMs(date)) = <<>>
          /\ windowedRows(Val(db).userRows, dayStartMs(date), dayEndMs(date)) = <<>>

BuildDone == call /= None /\ call.fn = "buildSession" /\ call.pc = "done"

\* C19 as stated: the log file is parsed exactly when the store gives
\* nothing.
C19_Original_LogParsedOnlyOnFallback ==
    BuildDone =>
        /\ "parseJsonlFile" \in Range(call.calls) => StoreGivesNothing
        /\ (StoreGivesNothing /\ BuildEntry.fileExists) => "parseJsonlFile" \in Range(call.calls)

\* the numbers of a session
SessionFigures(s) ==
    [messageCount |-> s.messageCount, userMessageCount |-> s.userMessageCount,
     assistantMessageCount |-> s.assistantMessageCount, tokens |-> s.tokens,
     costUsd |-> s.costUsd, durationMs |-> s.durationMs]

\* C19: the store is tried first whenever there is one; the session is built
\* by the log-file builder exactly when the store is absent or unopenable, a
\* query throws, or the windowed queries yield no message; and when the
\* store yields a message, the message counts, tokens, cost and duration
\* returned are those of the store rows, whatever the log file holds (the
\* log file is then read for the digest only).
C19_FallbackExactly ==
    BuildDone =>
        /\ Val(storage.claude).db /= None => call.calls[1] = "buildSessionFromDb"
        /\ "buildSessionFromJsonl" \in Range(call.calls) <=> StoreGivesNothing
        /\ ~StoreGivesNothing =>
              /\ Val(ret) /= None
              /\ \A lines \in SeqsUpTo(ClaudeLines(date), 1) :
                    SessionFigures(Val(Val(ret))) =
                        SessionFigures(Val(buildSessionFromDb(
                            [BuildEntry EXCEPT !.lines = lines],
                            dayStartMs(date), dayEndMs(date), Val(Val(storage.claude).db))))
        /\ StoreGivesNothing =>
              ret = Some(buildSessionFromJsonl(BuildEntry, dayStartMs(date), dayEndMs(date)))

\* the store answered with a message while the log file held in-window
\* assistant lines of another number: the session is the store's, the log
\* file was read, the log-file builder did not run
C19_Witness ==
    /\ BuildDone
    /\ Val(ret) /= None
    /\ ~StoreGivesNothing
    /\ call.calls = <<"buildSessionFromDb", "parseJsonlFile">>
    /\ parseJsonlFile(BuildEntry.lines, "assistant", dayStartMs(date), dayEndMs(date)) /= <<>>
    /\ Val(Val(ret)).assistantMessageCount
          /= Len(parseJsonlFile(BuildEntry.lines, "assistant", dayStartMs(date), dayEndMs(date)))

----------------------------------------------------------------------------
(* Codex: the input / cache split of the day's usage *)

\* C20: with rawInputDelta and cachedInputDelta the clamped differences of
\* the input and cached-input counters of S1 and S0,
\* input = max(0, rawInputDelta - cachedInputDelta), cacheRead =
\* cachedInputDelta and cacheWrite = 0, hence input + cacheRead =
\* rawInputDelta whenever cachedInputDelta <= rawInputDelta; and no
\* component of the usage is negative, whatever the snapshots hold.
C20_InputNetOfCache ==
    (ret /= None /\ call.fn = "computeDayTokenUsage") =>
        /\ S1 /= None =>
              LET rawInputDelta    == ClampedDelta("input")
                  cachedInputDelta == ClampedDelta("cachedInput")
              IN /\ Val(ret).input = Max(0, rawInputDelta - cachedInputDelta)
                 /\ Val(ret).cacheRead = cachedInputDelta
                 /\ Val(ret).cacheWrite = 0
                 /\ cachedInputDelta <= rawInputDelta =>
                       Val(ret).input + Val(ret).cacheRead = rawInputDelta
        /\ \A f \in {"input", "output", "reasoning", "cacheRead", "cacheWrite", "total"} :
              Val(ret)[f] >= 0

\* a window whose cached-input delta (15) exceeds its raw input delta (12),
\* counted from a negative snapshot before the window
C20_Witness ==
    /\ ret /= None
    /\ call.fn = "computeDayTokenUsage"
    /\ Len(call.snapshots) = 2
    /\ call.snapshots[1] = [ts |-> dayStartMs(date) - 1, input |-> -3, cachedInput |-> -7,
                            output |-> -1, reasoning |-> -2]
    /\ call.snapshots[2] = [ts |-> dayStartMs(date), input |-> 12, cachedInput |-> 15,
                            output |-> 8, reasoning |-> 2]
    /\ Val(ret) = [input |-> 0, output |-> 9, reasoning |-> 4, cacheRead |-> 22,
                   cacheWrite |-> 0, total |-> 35]


----------------------------------------------------------------------------
(* Codex: which records of a session file count *)

\* a record that reads as a chat message / as a tool call
IsChatRecord(entry) ==
    \/ entry.type = "event_msg" /\ entry.sub \in {"user_message", "agent_message"} /\ entry.text /= ""
    \/ entry.type = "response_item" /\ entry.sub = "message"
          /\ chatRole(entry.role) /= None /\ entry.text /= ""
    \/ entry.type = "message" /\ chatRole(entry.role) /= None /\ entry.text /= ""

IsToolRecord(entry) ==
    \/ entry.type = "response_item" /\ entry.sub = "function_call" /\ entry.name /= ""
    \/ entry.type = "function_call" /\ entry.name /= ""

\* the records of the file whose own timestamp lies in the day window
StampedInDay(entries) ==
    {i \in DOMAIN entries : entries[i].ts /= None /\ InDay(Val(entries[i].ts), date)}

\* C21: a Codex session is returned only if the timestamps of its records
\* overlap the day window, and it counts no more messages than it has chat
\* records whose own timestamp is in the window; with no chat and no tool
\* record stamped in the window there is no session.
C21_OnlyStampedRecordsCount ==
    \A s \in ReturnedSessions :
        s.tool = "codex" =>
            LET entries == Val(storage.codex)[1].entries
                stamps  == {Val(entries[i].ts) : i \in {j \in DOMAIN entries : entries[j].ts /= None}}
            IN /\ \E lo \in stamps, hi \in stamps : lo <= dayEndMs(date) /\ hi >= dayStartMs(date)
               /\ s.messageCount <=
                     Cardinality({i \in StampedInDay(entries) : IsChatRecord(entries[i])})
               /\ \E i \in StampedInDay(entries) :
                     IsChatRecord(entries[i]) \/ IsToolRecord(entries[i])


----------------------------------------------------------------------------
(* Cursor: bubbles without a message-type tag *)

\* the bubbles stored for the composer, inline or under its key prefix
StoredBubbles(composer) ==
    (IF composer.conversation = None THEN <<>> ELSE Val(composer.conversation))
        \o composer.kvBubbles

\* the stored bubbles that carry a type tag
TypedBubbles(composer) == SelectSeq(StoredBubbles(composer), LAMBDA b : Truthy(b.type))

C22_NotCounted(s, composer) ==
    s.messageCount <=
        Len(SelectSeq(TypedBubbles(composer),
                      LAMBDA b : bubbleInDay(b, dayStartMs(date), dayEndMs(date))))

C22_NoContent(s, composer) ==
    LET typed == TypedBubbles(composer)
    IN /\ Range(s.filesTouched) \subseteq {typed[i].file : i \in DOMAIN typed}
       /\ \A i \in DOMAIN s.conversationDigest :
             \E k \in DOMAIN typed : typed[k].text = s.conversationDigest[i][2]

\* C22: a Cursor bubble without a type tag is discarded, however it was
\* loaded: the session counts no more messages than it has typed bubbles of
\* the day, and its files and digest come from typed bubbles only.
C22_UntypedBubblesDiscarded ==
    \A s \in ReturnedSessions :
        s.tool = "cursor" =>
            /\ C22_NotCounted(s, Val(storage.cursor)[1])
            /\ C22_NoContent(s, Val(storage.cursor)[1])


----------------------------------------------------------------------------
(* Tool-call summaries of a session *)

NoDuplicates(seq) == \A i, j \in DOMAIN seq : seq[i] = seq[j] => i = j

\* C23: no session returned by any parser lists a tool-call summary twice.
C23_ToolSummariesUnique ==
    \A s \in ReturnedSessions : NoDuplicates(s.toolCallSummaries)


----------------------------------------------------------------------------
(* Cursor: project-path resolution over a candidate set *)

\* A path is the sequence of its segments, <<>> the filesystem root.  A
\* filesystem fs gives every path its kind ("none": absent, "dir", "file",
\* "other": present but neither) and the set git of the directories that
\* hold a .git entry.

\* path.dirname: the root is its own parent
dirname(path) == IF path = <<>> THEN <<>> ELSE SubSeq(path, 1, Len(path) - 1)

toExistingDirectory(fs, candidate) ==
    IF fs.kind[candidate] = "none" THEN None
    ELSE IF fs.kind[candidate] = "dir" THEN Some(candidate)
    ELSE IF fs.kind[candidate] = "file" THEN Some(dirname(candidate))
    ELSE None

\* the while (true) loop of findGitRoot
RECURSIVE GitRootLoop(_, _)
GitRootLoop(fs, current) ==
    IF current \in fs.git THEN Some(current)
    ELSE IF dirname(current) = current THEN None
    ELSE GitRootLoop(fs, dirname(current))

findGitRoot(fs, candidate) ==
    LET current == toExistingDirectory(fs, candidate)
    IN IF current = None THEN None ELSE GitRootLoop(fs, Val(current))

\* for (const candidate of candidates) { const r = f(candidate); if (r) return r; }
RECURSIVE FirstResolved(_, _, _)
FirstResolved(Resolve(_, _), fs, candidates) ==
    IF candidates = <<>> THEN None
    ELSE IF Resolve(fs, Head(candidates)) /= None THEN Resolve(fs, Head(candidates))
    ELSE FirstResolved(Resolve, fs, Tail(candidates))

\* resolveProjectPath over the candidates in insertion order
resolveProjectPath(fs, candidates) ==
    IF FirstResolved(findGitRoot, fs, candidates) /= None
    THEN FirstResolved(findGitRoot, fs, candidates)
    ELSE FirstResolved(toExistingDirectory, fs, candidates)

----------------------------------------------------------------------------
(* Specification SpecResolve: resolveProjectPath on small filesystems *)

MaxCandidates == 2

ResolvePaths ==
    { <<>>, <<"repo">>, <<"repo", "src">>, <<"repo", "src", "a.ts">>, <<"tmp">>, <<"tmp", "b.ts">> }

\* the root is a directory; whatever exists lies in a directory; .git
\* entries lie in directories
Filesystems ==
    {fs \in [kind : [ResolvePaths -> {"none", "dir", "file", "other"}],
             git : SUBSET (ResolvePaths \ {<<"repo", "src", "a.ts">>, <<"tmp", "b.ts">>})] :
        /\ fs.kind[<<>>] = "dir"
        /\ \A path \in ResolvePaths : fs.kind[path] /= "none" => fs.kind[dirname(path)] = "dir"
        /\ \A path \in fs.git : fs.kind[path] = "dir"}

\* the Set of normalized candidates, in insertion order
CandidateLists ==
    {cs \in SeqsUpTo(ResolvePaths, MaxCandidates) : \A i, j \in DOMAIN cs : cs[i] = cs[j] => i = j}

InitResolve ==
    /\ date = 0
    /\ storage = EmptyStorage
    /\ returned = NothingReturned
    /\ allSessions = <<>>
    /\ gitActivities = <<>>
    /\ recap = None
    /\ call \in [fn : {"resolveProjectPath"}, fs : Filesystems, candidates : CandidateLists]
    /\ ret = None

ResolveProjectPath ==
    /\ ret = None
    /\ call.fn = "resolveProjectPath"
    /\ ret' = Some(resolveProjectPath(call.fs, call.candidates))
    /\ UNCHANGED <<date, storage, returned, allSessions, gitActivities, recap, call>>

NextResolve == ResolveProjectPath

SpecResolve == InitResolve /\ [][NextResolve]_vars

\* the path and the directories above it, nearest first
RECURSIVE AncestorsOrSelf(_)
AncestorsOrSelf(path) ==
    IF path = <<>> THEN << <<>> >> ELSE <<path>> \o AncestorsOrSelf(dirname(path))

\* the nearest existing directory at or above the path that holds a .git
\* entry
NearestMarked(fs, path) ==
    LET marked == SelectSeq(AncestorsOrSelf(path),
                            LAMBDA a : fs.kind[a] = "dir" /\ a \in fs.git)
    IN IF marked = <<>> THEN None ELSE Some(marked[1])

FirstIndex(candidates, Ok(_)) ==
    LET idx == {i \in DOMAIN candidates : Ok(candidates[i])}
    IN IF idx = {} THEN 0 ELSE CHOOSE i \in idx : \A j \in idx : i <= j

ResolveDone == call /= None /\ call.fn = "resolveProjectPath" /\ ret /= None

\* C24: if some candidate has an existing directory at or above it that
\* holds a version-control marker, the result is the nearest such directory
\* of the first such candidate; otherwise it is the first candidate that
\* exists as a directory, or as a file (then its parent); it is null exactly
\* when no candidate resolves in either way.
C24_ResolveProjectPath ==
    ResolveDone =>
        LET fs == call.fs
            cs == call.candidates
            m  == FirstIndex(cs, LAMBDA c : NearestMarked(fs, c) /= None)
            e  == FirstIndex(cs, LAMBDA c : fs.kind[c] \in {"dir", "file"})
        IN Val(ret) = (IF m /= 0 THEN NearestMarked(fs, cs[m])
                       ELSE IF e /= 0 THEN toExistingDirectory(fs, cs[e])
                       ELSE None)

\* the same statement with the marker sought only above candidates that
\* exist as a file or a directory
ResolveOfExistingCandidates ==
    ResolveDone =>
        LET fs == call.fs
            cs == call.candidates
            m  == FirstIndex(cs, LAMBDA c : fs.kind[c] \in {"dir", "file"} /\ NearestMarked(fs, c) /= None)
            e  == FirstIndex(cs, LAMBDA c : fs.kind[c] \in {"dir", "file"})
        IN Val(ret) = (IF m /= 0 THEN NearestMarked(fs, cs[m])
                       ELSE IF e /= 0 THEN toExistingDirectory(fs, cs[e])
                       ELSE None)


----------------------------------------------------------------------------
(* summarizeRecap: when the standup is asked for *)

SomeSummaryFailed == \E i \in DOMAIN call.results : ~call.results[i].ok

\* C25: the standup call is issued only once every project has had its
\* summary call; it is skipped, standupMessage staying null and a warning
\* being logged, exactly when at least one project summary failed and every
\* project's aiSummary is null; a recap without projects still has its
\* standup attempted.
C25_StandupAfterProjects ==
    call.fn = "summarizeRecap" =>
        LET ps == Val(recap).projects
        IN /\ call.standupCalls > 0 => Len(call.results) = Len(ps)
           /\ call.pc = "done" =>
                 /\ call.standupCalls = 0
                       <=> (SomeSummaryFailed /\ \A i \in DOMAIN ps : ps[i].aiSummary = None)
                 /\ call.standupCalls = 0 =>
                       /\ Val(ret).standupMessage = None
                       /\ call.warnings[Len(call.warnings)] = Warning("skip", 0)
                 /\ Len(ps) = 0 => call.standupCalls = 1

\* two projects whose summaries both failed: no standup call, the skip
\* warning after the two failure warnings
C25_Witness ==
    /\ call.fn = "summarizeRecap"
    /\ call.pc = "done"
    /\ Len(Val(recap).projects) = 2
    /\ call.hasKey
    /\ \A i \in 1..2 : ~call.results[i].ok
    /\ call.standupCalls = 0
    /\ call.standupResult = None
    /\ Val(ret).standupMessage = None
    /\ call.warnings = << Warning("project", 1), Warning("project", 2), Warning("skip", 0) >>


-----------------------------------------------------------------------------
(* Specification SpecConcurrent: the parsers' getSessions run in any order,  *)
(* repeatedly and interleaved at their await points, while the stores change *)

\* the store a parser reads
StoreOf(st, p) ==
    CASE p = "codex" -> st.codex
      [] p = "claude-code" -> st.claude
      [] p = "cursor" -> st.cursor
      [] p = "opencode" -> st.opencode

\* what parser.getSessions(date) returns for the store it reads
getSessions(p, store, d) ==
    CASE p = "codex" -> codexGetSessions(store, d)
      [] p = "claude-code" -> claudeGetSessions(store, d)
      [] p = "cursor" -> cursorGetSessions(store, d)
      [] p = "opencode" -> openCodeGetSessions(store, d)

ConcurrentCodexStores(d) == {
    << [format |-> "jsonl", sessionTs |-> None, entries |-> <<
          CodexEntry("event_msg", "user_message", Some(dayStartMs(d)), "", "hi", "", None, <<>>) >>] >>,
    << [format |-> "jsonl", sessionTs |-> None, entries |-> <<
          CodexEntry("event_msg", "user_message", Some(dayStartMs(d)), "", "hi", "", None, <<>>),
          CodexEntry("event_msg", "agent_message", Some(dayStartMs(d) + 60000), "", "ok", "", None, <<>>) >>] >> }

ConcurrentClaudeStores(d) ==
    {[db |-> db,
      entries |-> << ClaudeEntry(Some(dayStartMs(d)), Some(dayEndMs(d)), FALSE, TRUE, <<
          ClaudeLine("user", Some(dayStartMs(d)), "", <<>>, None, "ask", ""),
          ClaudeLine("assistant", Some(dayStartMs(d) + 60000), "msg_a", Sonnet4,
                     ClaudeUsage(10, 5, 2, 1), "draft", "Read /repo/a.ts") >>) >>] :
        db \in {x \in ClaudeDbs(d) : x = None \/ Len(Val(x).assistantRows) >= 2}}

ConcurrentCursorStores(d) == {
    << CursorComposer(<<Some(dayStartMs(d) + 1000), Some(dayEndMs(d))>>, TRUE, <<
          CursorBubble(Some(1), None, None, None, None, <<>>, "ask", "") >>) >>,
    << CursorComposer(<<Some(dayStartMs(d) + 1000), Some(dayEndMs(d))>>, TRUE, <<
          CursorBubble(Some(1), None, None, None, None, <<>>, "ask", ""),
          CursorBubble(Some(2), None, None, None, CursorTokens(10, 5), Gpt4o, "done",
                       "/repo/a.ts") >>) >> }

ConcurrentOpenCodeStores(d) == {
    [worktree |-> "/repo/oc",
     sessions |-> << OCSession("ses_1", "", dayStartMs(d), dayEndMs(d)) >>,
     messages |-> << OCMessage("ses_1", "user", dayStartMs(d), None, <<>>, None, "") >>],
    [worktree |-> "/repo/oc",
     sessions |-> << OCSession("ses_1", "", dayStartMs(d), dayEndMs(d)) >>,
     messages |-> << OCMessage("ses_1", "user", dayStartMs(d), None, <<>>, None, ""),
                     OCMessage("ses_1", "assistant", dayStartMs(d) + 1000,
                               Some(dayStartMs(d) + 1001000), Sonnet4,
                               OCTokens(10, 5, 3, 2, 1), "read /repo/a.ts") >>] }

\* all four stores exist on the machine
ConcurrentStorages(d) ==
    {[codex |-> Some(cx), claude |-> Some(cc), cursor |-> Some(cu), opencode |-> Some(oc)] :
        cx \in ConcurrentCodexStores(d), cc \in ConcurrentClaudeStores(d),
        cu \in ConcurrentCursorStores(d), oc \in ConcurrentOpenCodeStores(d)}

\* let SQL: SqlJsStatic | null = null. The runtime carries the database file
\* that lay beside it when it was initialised, which a cache of the data
\* would serve again.
sqlJsRuntime(file) == [besides |-> file]

\* a variant that serves the database the runtime was initialised beside
openStale(sqlJs, fileBuffer) == sqlJs.besides

\* ReadonlyDatabase.open: new sqlJs.Database(readFileSync(filePath))
open(sqlJs, fileBuffer) == fileBuffer

\* call.SQL is the module-level runtime cache; call.pc the position of the
\* Claude Code parser's getSessions; call.read[p] the store contents the
\* last finished call of parser p read
InitConcurrent ==
    /\ date = TargetDay
    /\ storage \in ConcurrentStorages(TargetDay)
    /\ returned = NothingReturned
    /\ allSessions = <<>>
    /\ gitActivities = <<>>
    /\ recap = None
    /\ call = [fn |-> "getSessions", SQL |-> None, pc |-> "idle",
               read |-> [p \in Parsers |-> None]]
    /\ ret = None

\* the stores change between and during calls
ChangeStorage ==
    /\ call.fn = "getSessions"
    /\ \E st \in ConcurrentStorages(date) :
          /\ st /= storage
          /\ storage' = st
    /\ UNCHANGED <<date, returned, allSessions, gitActivities, recap, call, ret>>

Finish(p, store, sessions) ==
    /\ returned' = [returned EXCEPT ![p] = Some(sessions)]
    /\ call' = [call EXCEPT !.read[p] = Some(store), !.pc = IF p = "claude-code" THEN "idle" ELSE @]
    /\ UNCHANGED <<date, storage, allSessions, gitActivities, recap, ret>>

\* the Codex, Cursor and OpenCode getSessions have no await inside: a call
\* runs to its end without another one in between
RunToCompletion(p) ==
    /\ call.fn = "getSessions"
    /\ p \in {"codex", "cursor", "opencode"}
    /\ Finish(p, Val(StoreOf(storage, p)), getSessions(p, Val(StoreOf(storage, p)), date))

\* Claude Code getSessions up to `await ReadonlyDatabase.open(dbPath)`;
\* without a store file the whole call runs without an await
ClaudeStart ==
    /\ call.fn = "getSessions"
    /\ call.pc = "idle"
    /\ LET home == Val(storage.claude)
       IN IF home.db = None
          THEN Finish("claude-code", home, claudeGetSessions(home, date))
          ELSE /\ call' = [call EXCEPT !.pc = "getSqlJs"]
               /\ UNCHANGED <<date, storage, returned, allSessions, gitActivities, recap, ret>>

\* getSqlJs: if (!SQL) SQL = await initSqlJs()
GetSqlJs ==
    /\ call.fn = "getSessions"
    /\ call.pc = "getSqlJs"
    /\ call' = [call EXCEPT !.pc = IF call.SQL = None THEN "initSqlJs" ELSE "open"]
    /\ UNCHANGED <<date, storage, returned, allSessions, gitActivities, recap, ret>>

InitSqlJs ==
    /\ call.fn = "getSessions"
    /\ call.pc = "initSqlJs"
    /\ call' = [call EXCEPT !.SQL = Some(sqlJsRuntime(Val(storage.claude).db)), !.pc = "open"]
    /\ UNCHANGED <<date, storage, returned, allSessions, gitActivities, recap, ret>>

\* the file is read once the runtime is there (a file gone by then makes
\* open throw: the scan goes on without the store), then the scan runs
OpenAndScan ==
    /\ call.fn = "getSessions"
    /\ call.pc = "open"
    /\ LET home == Val(storage.claude)
           db   == IF home.db = None THEN None ELSE open(Val(call.SQL), home.db)
       IN Finish("claude-code", home, claudeGetSessions([home EXCEPT !.db = db], date))

NextConcurrent ==
    \/ ChangeStorage
    \/ \E p \in {"codex", "cursor", "opencode"} : RunToCompletion(p)
    \/ ClaudeStart
    \/ GetSqlJs
    \/ InitSqlJs
    \/ OpenAndScan

SpecConcurrent == InitConcurrent /\ [][NextConcurrent]_vars

C27_MessageCountIsUserPlusAssistant ==
    \A s \in ReturnedSessions :
        s.messageCount = s.userMessageCount + s.assistantMessageCount

\* the same for the parsers that count the two kinds and add them up
C27_CodexAndClaude ==
    \A p \in {"codex", "claude-code"} :
        returned[p] /= None =>
            \A i \in DOMAIN Val(returned[p]) :
                LET s == Val(returned[p])[i]
                IN s.messageCount = s.userMessageCount + s.assistantMessageCount


\* C28: every session returned by any parser has durationMs >= 0, and the
\* totalDurationMs of the day's recap and of each of its projects, which are
\* sums of session durations, is >= 0, whatever timestamps and per-message
\* durations the stores hold (negative or out-of-order ones included).
C28_DurationsNonNegative ==
    /\ \A s \in ReturnedSessions : s.durationMs >= 0
    /\ SumSeq([i \in DOMAIN allSessions |-> allSessions[i].durationMs]) >= 0

\* the same for the parsers that measure durations from timestamps
C28_TimestampDurationsNonNegative ==
    \A p \in {"codex", "cursor", "opencode"} :
        returned[p] /= None =>
            \A i \in DOMAIN Val(returned[p]) : Val(returned[p])[i].durationMs >= 0


-----------------------------------------------------------------------------
(* Specification SpecTokenPartition: computeDayTokenUsage for a day, for the *)
(* day after it and for the two days as one window                           *)

\* instants around the windows of day d and of day d + 1
TwoDayTimes(d) ==
    {dayStartMs(d) - 1, dayStartMs(d), dayEndMs(d),
     dayStartMs(d + 1), dayEndMs(d + 1), dayEndMs(d + 1) + 1}

TwoDayCounters == {
    [input |-> 10, cachedInput |-> 4,  output |-> 5, reasoning |-> 1],
    [input |-> 20, cachedInput |-> 4,  output |-> 8, reasoning |-> 3],
    [input |-> 30, cachedInput |-> 20, output |-> 9, reasoning |-> 4],
    [input |-> 12, cachedInput |-> 15, output |-> 8, reasoning |-> 2] }

TwoDaySnapshots(d) ==
    {[ts |-> t, input |-> c.input, cachedInput |-> c.cachedInput,
      output |-> c.output, reasoning |-> c.reasoning] :
        t \in TwoDayTimes(d), c \in TwoDayCounters}

InitTokenPartition ==
    /\ date = TargetDay
    /\ storage = EmptyStorage
    /\ returned = NothingReturned
    /\ allSessions = <<>>
    /\ gitActivities = <<>>
    /\ recap = None
    /\ call \in [fn : {"computeDayTokenUsage x3"},
                 snapshots : SeqsUpTo(TwoDaySnapshots(TargetDay), MaxSnapshots)]
    /\ ret = None

\* the session file parsed for day D, for day D + 1, and for the window
\* from the start of D to the end of D + 1
ComputeTwoDays ==
    /\ ret = None
    /\ call.fn = "computeDayTokenUsage x3"
    /\ ret' = Some([day      |-> computeDayTokenUsage(call.snapshots, dayStartMs(date), dayEndMs(date)),
                    nextDay  |-> computeDayTokenUsage(call.snapshots, dayStartMs(date + 1),
                                                      dayEndMs(date + 1)),
                    combined |-> computeDayTokenUsage(call.snapshots, dayStartMs(date),
                                                      dayEndMs(date + 1))])
    /\ UNCHANGED <<date, storage, returned, allSessions, gitActivities, recap, call>>

NextTokenPartition == ComputeTwoDays

SpecTokenPartition == InitTokenPartition /\ [][NextTokenPartition]_vars

\* the counters are token counts that never decrease over time: in the order
\* of their instants (snapshots of one instant in the order logged) no field
\* is below zero or below the field of the snapshot before
CountersNeverDecrease(snapshots) ==
    LET sorted == sortSnapshots(snapshots)
    IN /\ \A i \in DOMAIN sorted :
              /\ sorted[i].input >= 0
              /\ sorted[i].cachedInput >= 0
              /\ sorted[i].output >= 0
              /\ sorted[i].reasoning >= 0
       /\ \A i \in 1..(Len(sorted) - 1) :
              /\ sorted[i].input <= sorted[i + 1].input
              /\ sorted[i].cachedInput <= sorted[i + 1].cachedInput
              /\ sorted[i].output <= sorted[i + 1].output
              /\ sorted[i].reasoning <= sorted[i + 1].reasoning

SnapshotsWithin(startMs, endMs) ==
    {i \in DOMAIN call.snapshots :
        startMs <= call.snapshots[i].ts /\ call.snapshots[i].ts <= endMs}

-----------------------------------------------------------------------------
(* Specification SpecOverlap: the two day-overlap tests on one session span *)

\* instants around the two edges of the window of day d
OverlapTimes(d) ==
    {dayStartMs(d) - 2, dayStartMs(d) - 1, dayStartMs(d), dayStartMs(d) + 1,
     dayEndMs(d) - 1, dayEndMs(d), dayEndMs(d) + 1, dayEndMs(d) + 2}

InitOverlap ==
    /\ date = TargetDay
    /\ storage = EmptyStorage
    /\ returned = NothingReturned
    /\ allSessions = <<>>
    /\ gitActivities = <<>>
    /\ recap = None
    /\ call \in [fn : {"overlapsDay"},
                 created : OverlapTimes(TargetDay), modified : OverlapTimes(TargetDay)]
    /\ ret = None

\* the span tested as the Claude Code, Cursor and OpenCode parsers test it
\* and as the Codex parser tests it
OverlapsDay ==
    /\ ret = None
    /\ call.fn = "overlapsDay"
    /\ ret' = Some([threeClause |-> overlapsDay(Some(call.created), Some(call.modified),
                                                dayStartMs(date), dayEndMs(date)),
                    interval    |-> intervalOverlapsDay(call.created, call.modified,
                                                        dayStartMs(date), dayEndMs(date))])
    /\ UNCHANGED <<date, storage, returned, allSessions, gitActivities, recap, call>>

NextOverlap == OverlapsDay

SpecOverlap == InitOverlap /\ [][NextOverlap]_vars

\* C30: for every session span with created <= modified, the three-clause
\* test (created in the window, or modified in the window, or
\* created <= dayStart and modified >= dayEnd) accepts the span exactly when
\* the interval test (created <= dayEnd and modified >= dayStart) accepts it.
C30_OverlapTestsAgree ==
    (call /= None /\ call.fn = "overlapsDay" /\ ret /= None
        /\ call.created <= call.modified) =>
        (Val(ret).threeClause <=> Val(ret).interval)

\* a span from before the window to after it: neither end is in the window,
\* both tests accept
C30_Witness ==
    /\ call /= None /\ call.fn = "overlapsDay" /\ ret /= None
    /\ call.created < dayStartMs(date)
    /\ call.modified > dayEndMs(date)
    /\ Val(ret).threeClause
    /\ Val(ret).interval


====
